---- MODULE Spec2Model ----
(***************************************************************************)
(* Model of the sma-proto client: SmaClient (client/mod.rs) driving an     *)
(* SmaSession (client/session.rs) over a UDP socket.                       *)
(*                                                                         *)
(* A datagram is modelled as a frame: the record of the wire fields the    *)
(* decoder looks at (fourCC, protocol tag, opcode, endpoints, error code,  *)
(* the two counter words, payload), together with the IP it came from.     *)
(* 32-bit serial numbers are written as a pair of 16-bit halves <<hi, lo>>.*)
(***************************************************************************)
EXTENDS Integers, Sequences, FiniteSets, TLC

\* ------------------------------------------------------------------------
\* Bounds of the model
\* ------------------------------------------------------------------------
MaxCalls == 2
MaxArrive == 2
MaxFragments == 3
MaxQueue == 1

\* ------------------------------------------------------------------------
\* Program constants
\* ------------------------------------------------------------------------
FIRST_FRAGMENT_BIT == 32768
U16 == 65536
SMA_FOURCC == 1397571840
SMA_PROTOCOL_INV == 24677
SMA_PROTOCOL_EM == 24681
OPCODE_GET_DAY_DATA == 131184
OPCODE_IDENTIFY == 131072
OPCODE_LOGIN == 327167
OPCODE_LOGOUT == 130559
PASSWORD_LEN == 12
PACKET_HEADER_LENGTH == 18
INV_HEADER_LENGTH == 28
FOOTER_LENGTH == 4
EM_LENGTH_MIN == 32

\* Values the model uses for things the code leaves to its caller or peer.
OTHER_FOURCC == SMA_FOURCC + 1
OTHER_PROTOCOL == SMA_PROTOCOL_INV + 28
OTHER_OPCODE == OPCODE_IDENTIFY + 1
RemoteIp == "remote"
OtherIp == "other"

Broadcast == [susy_id |-> 65535, serial |-> <<65535, 65535>>]
Dummy == [susy_id |-> 57005, serial |-> <<57005, 48879>>]
Device == [susy_id |-> 22136, serial |-> <<43981, 43982>>]
Device2 == [susy_id |-> 22137, serial |-> <<43981, 43983>>]
Client2 == [susy_id |-> 57006, serial |-> <<57005, 48880>>]

NoCounter == [fragment_id |-> 0, packet_id |-> 0, first_fragment |-> FALSE]

\* ------------------------------------------------------------------------
\* SmaInvCounter (inverter/counter.rs)
\* ------------------------------------------------------------------------
\* serialize: the raw packet-id word carries first_fragment in bit 0x8000.
CounterSerialize(c) ==
    [fragment_id |-> c.fragment_id,
     raw_packet_id |-> IF c.first_fragment /\ c.packet_id < FIRST_FRAGMENT_BIT
                       THEN c.packet_id + FIRST_FRAGMENT_BIT
                       ELSE c.packet_id]

CounterDeserializeKeepsBit(fragment_id, raw_packet_id) ==
    [fragment_id |-> fragment_id,
     packet_id |-> raw_packet_id,
     first_fragment |-> raw_packet_id >= FIRST_FRAGMENT_BIT]

\* deserialize: extract and clear bit 0x8000.
CounterDeserialize(fragment_id, raw_packet_id) ==
    IF raw_packet_id >= FIRST_FRAGMENT_BIT
    THEN [fragment_id |-> fragment_id,
          packet_id |-> raw_packet_id - FIRST_FRAGMENT_BIT,
          first_fragment |-> TRUE]
    ELSE [fragment_id |-> fragment_id,
          packet_id |-> raw_packet_id,
          first_fragment |-> FALSE]

\* ------------------------------------------------------------------------
\* Frames on the wire
\* ------------------------------------------------------------------------
\* len is the number of bytes recv_from reports: a whole frame has its outer
\* header, its sub-protocol header and its footer (the payload is counted
\* one unit per element).
Frame(ip, fourcc, protocol, opcode, dst, src, err, frag, raw, payload) ==
    [ip |-> ip, fourcc |-> fourcc, protocol |-> protocol, opcode |-> opcode,
     dst |-> dst, src |-> src, error_code |-> err,
     fragment_id |-> frag, raw_packet_id |-> raw, payload |-> payload,
     len |-> PACKET_HEADER_LENGTH + INV_HEADER_LENGTH + Len(payload)
             + FOOTER_LENGTH]

\* The first n bytes of a datagram.
Truncated(f, n) == [f EXCEPT !.len = n]

\* SmaInvLogin: every password byte travels with 0x88 added, modulo 256.
\* (Subtraction wraps here; the frames of this model carry no password byte
\* below 0x88.)
Obfuscate(pw) == [i \in 1..Len(pw) |-> (pw[i] + 136) % 256]

Clarify(bytes) == [i \in 1..Len(bytes) |-> (bytes[i] + 256 - 136) % 256]

\* SmaSerde::serialize of the four inverter messages and the energy-meter
\* message, reduced to the fields the frame keeps.
Serialize(msg) ==
    LET w == CounterSerialize(msg.counters)
    IN  Frame("local", SMA_FOURCC,
              IF msg.variant = "EmMessage" THEN SMA_PROTOCOL_EM
                                           ELSE SMA_PROTOCOL_INV,
              CASE msg.variant = "InvGetDayData" -> OPCODE_GET_DAY_DATA
                [] msg.variant = "InvIdentify" -> OPCODE_IDENTIFY
                [] msg.variant = "InvLogin" -> OPCODE_LOGIN
                [] msg.variant = "InvLogout" -> OPCODE_LOGOUT
                [] OTHER -> 0,
              msg.dst, msg.src, msg.error_code,
              w.fragment_id, w.raw_packet_id,
              IF msg.variant = "InvLogin" THEN Obfuscate(msg.payload)
                                          ELSE msg.payload)

Message(variant, f) ==
    [variant |-> variant, dst |-> f.dst, src |-> f.src,
     error_code |-> f.error_code,
     counters |-> CounterDeserialize(f.fragment_id, f.raw_packet_id),
     payload |-> IF variant = "InvLogin" THEN Clarify(f.payload)
                                         ELSE f.payload]

DecodeError(kind, val) == [ok |-> FALSE, kind |-> kind, val |-> val]
Decoded(msg) == [ok |-> TRUE, msg |-> msg]

\* AnySmaMessageBase::deserialize: the outer header must be there, then
\* fourCC, then protocol tag, then (with the inverter header there) opcode.
AnyDeserialize(f) ==
    IF f.len < PACKET_HEADER_LENGTH
    THEN DecodeError("BufferTooSmall", f.len)
    ELSE IF f.fourcc # SMA_FOURCC
    THEN DecodeError("InvalidFourCC", f.fourcc)
    ELSE IF f.protocol = SMA_PROTOCOL_EM
    THEN IF f.len < EM_LENGTH_MIN
         THEN DecodeError("BufferTooSmall", f.len)
         ELSE Decoded(Message("EmMessage", f))
    ELSE IF f.protocol = SMA_PROTOCOL_INV
    THEN IF f.len < PACKET_HEADER_LENGTH + INV_HEADER_LENGTH
         THEN DecodeError("BufferTooSmall", f.len)
         ELSE
         CASE f.opcode = OPCODE_GET_DAY_DATA ->
                  Decoded(Message("InvGetDayData", f))
           [] f.opcode = OPCODE_IDENTIFY -> Decoded(Message("InvIdentify", f))
           [] f.opcode = OPCODE_LOGIN -> Decoded(Message("InvLogin", f))
           [] f.opcode = OPCODE_LOGOUT -> Decoded(Message("InvLogout", f))
           [] OTHER -> DecodeError("UnsupportedOpcode", f.opcode)
    ELSE DecodeError("UnsupportedProtocol", f.protocol)

\* ------------------------------------------------------------------------
\* State
\* ------------------------------------------------------------------------
VARIABLES
    endpoint,         \* SmaClient.endpoint
    packet_id,        \* SmaClient.packet_id
    multicast,        \* SmaSession.multicast
    overflow_checks,  \* build profile: integer overflow aborts (TRUE) or wraps
    pc,               \* where the client is: "idle", awaiting a read, "aborted"
    op,               \* the operation of the current or last call
    records,          \* get_day_data: records
    total_fragments,  \* get_day_data: total_fragments
    rx_fragments,     \* get_day_data: rx_fragments
    rx_first,         \* get_day_data: rx_first
    result,           \* what the last call returned
    rxq,              \* datagrams queued in the socket, oldest first
    sent,             \* datagrams handed to send_to by the current or last call
    seen,             \* datagrams recv_from returned to the current or last call
    calls,            \* number of calls started, counted up to MaxCalls
    arrived,          \* number of datagrams that reached the socket
    std,              \* build feature: payload containers are std Vec (TRUE)
                      \* or heapless::Vec of fixed capacity (FALSE)
    input,            \* codec: the value handed to serialize
    buffer,           \* codec: the bytes written, or handed to deserialize
    out,              \* codec: what the last serialize / deserialize returned
    stage,            \* codec: "input", "serialized", "deserialized", ...
    origin,           \* codec: the bytes come from serialize ("local") or
                      \* from the network ("peer")
    pad,              \* codec: number of zero bytes appended to the frame
    hit,              \* codec: 1-based index of the byte overwritten, or 0
    remaining         \* codec: remaining() of the cursor handed to serialize

vars == <<endpoint, packet_id, multicast, overflow_checks, pc, op, records,
          total_fragments, rx_fragments, rx_first, result, rxq, sent, seen,
          calls, arrived, std, input, buffer, out, stage, origin, pad, hit,
          remaining>>

codec == <<std, input, buffer, out, stage, origin, pad, hit, remaining>>

client == <<endpoint, packet_id>>
session == <<multicast, overflow_checks>>
locals == <<records, total_fragments, rx_fragments, rx_first>>

Result(kind, val) == [kind |-> kind, val |-> val]
Pending == Result("Pending", 0)

\* SmaClient::new and SmaSession::open_unicast / open_multicast.
Init ==
    /\ endpoint = Dummy
    /\ packet_id = 0
    /\ multicast \in BOOLEAN
    /\ overflow_checks \in BOOLEAN
    /\ pc = "idle"
    /\ op = "none"
    /\ records = <<>>
    /\ total_fragments = 0
    /\ rx_fragments = 0
    /\ rx_first = FALSE
    /\ result = Result("None", 0)
    /\ rxq = <<>>
    /\ sent = <<>>
    /\ seen = <<>>
    /\ calls = 0
    /\ arrived = 0
    /\ std = TRUE
    /\ input = <<>>
    /\ buffer = <<>>
    /\ out = <<>>
    /\ stage = "none"
    /\ origin = "none"
    /\ pad = 0
    /\ hit = 0
    /\ remaining = 0

\* ------------------------------------------------------------------------
\* SmaClient::next_packet
\* ------------------------------------------------------------------------
NextPacketIdLate(p) ==
    LET q == (p + 1) % U16
    IN  IF q > FIRST_FRAGMENT_BIT THEN 0 ELSE q

NextPacketId(p) ==
    LET q == (p + 1) % U16
    IN  IF q >= FIRST_FRAGMENT_BIT THEN 0 ELSE q

NextPacket(p) ==
    [packet_id |-> NextPacketId(p),
     counters |-> [packet_id |-> NextPacketId(p), fragment_id |-> 0,
                   first_fragment |-> TRUE]]

\* ------------------------------------------------------------------------
\* SmaInvLogin::pw_from_str: the first PASSWORD_LEN characters, zero padded
\* ------------------------------------------------------------------------
Min(a, b) == IF a < b THEN a ELSE b

PwFromStr(passwd) ==
    LET n == Min(Len(passwd), PASSWORD_LEN)
    IN  IF \E i \in 1..n : passwd[i] > 127
        THEN [ok |-> FALSE, val |-> <<>>]
        ELSE [ok |-> TRUE,
              val |-> [i \in 1..PASSWORD_LEN |->
                          IF i <= n THEN passwd[i] ELSE 0]]

\* ------------------------------------------------------------------------
\* Requests built by the client
\* ------------------------------------------------------------------------
Request(variant, dst, src, counters, payload) ==
    [variant |-> variant, dst |-> dst, src |-> src, error_code |-> 0,
     counters |-> counters, payload |-> payload]

IdentifyRequest(src, counters) ==
    Request("InvIdentify", Broadcast, src, counters, <<>>)

LoginRequest(dst, src, counters, password) ==
    Request("InvLogin", dst, src, counters, password)

LogoutRequest(dst, src, counters) ==
    Request("InvLogout", dst, src, counters, <<>>)

GetDayDataRequest(dst, src, counters) ==
    Request("InvGetDayData", dst, src, counters, <<>>)

\* ------------------------------------------------------------------------
\* SmaSession::read, one pass of its loop over the datagram d
\* ------------------------------------------------------------------------
SourceAcceptedAny(mc, ip) == TRUE

SourceAccepted(mc, ip) == mc \/ ip = RemoteIp

ErrorSkippedAnyMode(mc, kind) == kind = "UnsupportedProtocol"

ErrorSkipped(mc, kind) == mc /\ kind = "UnsupportedProtocol"

\* The closures handed to read: expected variant and the client's packet_id.
ExpectedVariant(o) ==
    CASE o = "identify" -> "InvIdentify"
      [] o = "login" -> "InvLogin"
      [] o = "get_day_data" -> "InvGetDayData"
      [] o = "read_em_message" -> "EmMessage"
      [] OTHER -> "none"

PredicateAnyPacket(o, pid, msg) == msg.variant = ExpectedVariant(o)

PredicateToEndpoint(o, pid, msg) ==
    /\ msg.variant = ExpectedVariant(o)
    /\ msg.counters.packet_id = pid
    /\ msg.dst = endpoint

\* read_em_message compares the message's src with its argument instead.
Predicate(o, pid, msg) ==
    /\ msg.variant = ExpectedVariant(o)
    /\ IF o = "read_em_message" THEN msg.src = Device
                                ELSE msg.counters.packet_id = pid

\* "continue": the loop receives again; "err": read returns Err;
\* "some": read returns Ok(msg).
ReadOneReturnsMismatch(mc, o, pid, d) ==
    IF ~SourceAccepted(mc, d.ip)
    THEN [t |-> "continue"]
    ELSE LET r == AnyDeserialize(d)
         IN  IF ~r.ok
             THEN IF ErrorSkipped(mc, r.kind)
                  THEN [t |-> "continue"]
                  ELSE [t |-> "err", kind |-> r.kind, val |-> r.val]
             ELSE [t |-> "some", msg |-> r.msg]

ReadOne(mc, o, pid, d) ==
    IF ~SourceAccepted(mc, d.ip)
    THEN [t |-> "continue"]
    ELSE LET r == AnyDeserialize(d)
         IN  IF ~r.ok
             THEN IF ErrorSkipped(mc, r.kind)
                  THEN [t |-> "continue"]
                  ELSE [t |-> "err", kind |-> r.kind, val |-> r.val]
             ELSE IF Predicate(o, pid, r.msg)
                  THEN [t |-> "some", msg |-> r.msg]
                  ELSE [t |-> "continue"]

\* ------------------------------------------------------------------------
\* What each operation does with the message read returned
\* ------------------------------------------------------------------------
IdentifyResult(resp) ==
    IF resp.error_code # 0
    THEN Result("DeviceError", resp.error_code)
    ELSE Result("Ok", resp.src)

LoginResultDeviceError(resp) ==
    IF resp.error_code # 0
    THEN Result("DeviceError", resp.error_code)
    ELSE Result("Ok", 0)

LoginResult(resp) ==
    IF resp.error_code # 0
    THEN Result("LoginFailed", 0)
    ELSE Result("Ok", 0)

\* get_day_data: the loop condition, negated.
LoopDoneNoFirst(rx, total, first) == rx = total

LoopDone(rx, total, first) == rx = total /\ first

\* get_day_data: records.append(&mut resp.records)
AppendRecordsFront(recs, new) == new \o recs

AppendRecords(recs, new) == recs \o new

\* get_day_data: a first-fragment frame after rx_first was set.
IsExtraSofUnlessError(resp, first) ==
    resp.counters.first_fragment /\ first /\ resp.error_code = 0

IsExtraSof(resp, first) == resp.counters.first_fragment /\ first

\* get_day_data: the error-code check on every accepted fragment.
HasDeviceErrorOnFirst(resp) ==
    resp.error_code # 0 /\ resp.counters.first_fragment

HasDeviceError(resp) == resp.error_code # 0

\* u16 addition: [v |-> wrapped value, overflow |-> whether it overflowed].
AddU16(a, b) == [v |-> (a + b) % U16, overflow |-> a + b >= U16]

\* get_day_data: the loop body after read returned resp, up to the next
\* loop test.  l holds the locals; out is Pending when the loop goes on.
GddStep(l, resp, checks) ==
    LET rx == AddU16(l.rx_fragments, 1)
        tot == AddU16(resp.counters.fragment_id, 1)
        sof == resp.counters.first_fragment
        l1 == [l EXCEPT !.rx_fragments = rx.v]
        l2 == IF sof /\ ~l.rx_first
              THEN [l1 EXCEPT !.total_fragments = tot.v, !.rx_first = TRUE]
              ELSE l1
        l3 == [l2 EXCEPT !.records = AppendRecords(l.records, resp.payload)]
    IN  IF checks /\ rx.overflow
        THEN [l |-> l, out |-> Result("Panic", 0)]
        ELSE IF IsExtraSof(resp, l.rx_first)
        THEN [l |-> l1, out |-> Result("ExtraSofPacket", resp.counters)]
        ELSE IF sof /\ checks /\ tot.overflow
        THEN [l |-> l1, out |-> Result("Panic", 0)]
        ELSE IF HasDeviceError(resp)
        THEN [l |-> l2, out |-> Result("DeviceError", resp.error_code)]
        ELSE IF LoopDone(l3.rx_fragments, l3.total_fragments, l3.rx_first)
        THEN [l |-> l3, out |-> Result("Ok", l3.records)]
        ELSE [l |-> l3, out |-> Pending]

Locals == [records |-> records, total_fragments |-> total_fragments,
           rx_fragments |-> rx_fragments, rx_first |-> rx_first]

SetLocals(l) ==
    /\ records' = l.records
    /\ total_fragments' = l.total_fragments
    /\ rx_fragments' = l.rx_fragments
    /\ rx_first' = l.rx_first

NewLocals == [records |-> <<>>, total_fragments |-> 0,
              rx_fragments |-> 0, rx_first |-> FALSE]

\* ------------------------------------------------------------------------
\* Operations of SmaClient
\* ------------------------------------------------------------------------
Count(n) == Min(n + 1, MaxCalls)

\* next_packet, then SmaSession::write of the request: send_to succeeds
\* (io = "ok") or fails.  After a successful send the call returns res, or
\* goes on to await a datagram when res is Pending.
CallStart(o, req, io, res) ==
    /\ pc = "idle"
    /\ packet_id' = NextPacketId(packet_id)
    /\ op' = o
    /\ seen' = <<>>
    /\ SetLocals(NewLocals)
    /\ calls' = Count(calls)
    /\ IF io = "ok"
       THEN /\ sent' = <<Serialize(req)>>
            /\ pc' = IF res = Pending THEN o ELSE "idle"
            /\ result' = res
       ELSE /\ sent' = <<>>
            /\ pc' = "idle"
            /\ result' = Result("IoError", 0)
    /\ UNCHANGED <<endpoint, session, rxq, arrived, codec>>

\* A call that returns an error before anything is sent.
CallFails(o, pid, res) ==
    /\ pc = "idle"
    /\ packet_id' = pid
    /\ op' = o
    /\ seen' = <<>>
    /\ SetLocals(NewLocals)
    /\ calls' = Count(calls)
    /\ sent' = <<>>
    /\ pc' = "idle"
    /\ result' = res
    /\ UNCHANGED <<endpoint, session, rxq, arrived, codec>>

Identify(io) ==
    CallStart("identify",
              IdentifyRequest(endpoint, NextPacket(packet_id).counters),
              io, Pending)

LoginChecksPasswordFirst(ep, passwd, clock, io) ==
    LET pw == PwFromStr(passwd)
    IN  IF clock # "ok"
        THEN CallFails("login", packet_id, Result("TimeError", 0))
        ELSE IF ~pw.ok
        THEN CallFails("login", packet_id, Result("InvalidPassword", 0))
        ELSE CallStart("login",
                       LoginRequest(ep, endpoint,
                                    NextPacket(packet_id).counters, pw.val),
                       io, Pending)

Login(ep, passwd, clock, io) ==
    LET pw == PwFromStr(passwd)
    IN  IF clock # "ok"
        THEN CallFails("login", packet_id, Result("TimeError", 0))
        ELSE IF ~pw.ok
        THEN CallFails("login", NextPacketId(packet_id),
                       Result("InvalidPassword", 0))
        ELSE CallStart("login",
                       LoginRequest(ep, endpoint,
                                    NextPacket(packet_id).counters, pw.val),
                       io, Pending)

LogoutAwaitsResponse(ep) ==
    \E io \in {"ok", "err"} :
        CallStart("logout",
                  LogoutRequest(ep, endpoint, NextPacket(packet_id).counters),
                  io, Pending)

Logout(ep) ==
    \E io \in {"ok", "err"} :
        CallStart("logout",
                  LogoutRequest(ep, endpoint, NextPacket(packet_id).counters),
                  io, Result("Ok", 0))

GetDayData(ep, io) ==
    CallStart("get_day_data",
              GetDayDataRequest(ep, endpoint, NextPacket(packet_id).counters),
              io,
              IF LoopDone(NewLocals.rx_fragments, NewLocals.total_fragments,
                          NewLocals.rx_first)
              THEN Result("Ok", NewLocals.records)
              ELSE Pending)

\* read_em_message: nothing is sent, the call awaits an energy meter
\* message from src (Device in Predicate).
ReadEmMessage ==
    /\ pc = "idle"
    /\ op' = "read_em_message"
    /\ pc' = "read_em_message"
    /\ result' = Pending
    /\ sent' = <<>>
    /\ seen' = <<>>
    /\ SetLocals(NewLocals)
    /\ calls' = Count(calls)
    /\ UNCHANGED <<client, session, rxq, arrived, codec>>

\* write_em_message: SmaSession::write of an energy meter message from the
\* client's endpoint; no counter is taken.
WriteEmMessage(io) ==
    /\ pc = "idle"
    /\ op' = "write_em_message"
    /\ pc' = "idle"
    /\ seen' = <<>>
    /\ SetLocals(NewLocals)
    /\ calls' = Count(calls)
    /\ IF io = "ok"
       THEN /\ sent' = <<Serialize(Request("EmMessage", Broadcast, endpoint,
                                           NoCounter, <<>>))>>
            /\ result' = Result("Ok", 0)
       ELSE /\ sent' = <<>>
            /\ result' = Result("IoError", 0)
    /\ UNCHANGED <<client, session, rxq, arrived, codec>>

Awaiting == pc \notin {"idle", "aborted"}

\* The call ends with res, or goes on awaiting when res is Pending.
Return(res) ==
    /\ result' = res
    /\ pc' = IF res = Pending THEN pc
             ELSE IF res.kind = "Panic" THEN "aborted" ELSE "idle"

\* recv_from hands the oldest queued datagram to the read in progress; the
\* client runs until it returns or awaits the next datagram.
Recv ==
    /\ Awaiting
    /\ rxq # <<>>
    /\ LET d == Head(rxq)
           r == ReadOne(multicast, op, packet_id, d)
       IN  /\ rxq' = Tail(rxq)
           /\ seen' = Append(seen, d)
           /\ CASE r.t = "continue" ->
                     /\ Return(Pending)
                     /\ UNCHANGED locals
                [] r.t = "err" ->
                     /\ Return(Result("ProtocolError", r.kind))
                     /\ UNCHANGED locals
                [] r.t = "some" /\ op = "identify" ->
                     /\ Return(IdentifyResult(r.msg))
                     /\ UNCHANGED locals
                [] r.t = "some" /\ op = "login" ->
                     /\ Return(LoginResult(r.msg))
                     /\ UNCHANGED locals
                [] r.t = "some" /\ op = "read_em_message" ->
                     /\ Return(Result("Ok", r.msg.payload))
                     /\ UNCHANGED locals
                [] r.t = "some" /\ op = "get_day_data" ->
                     LET s == GddStep(Locals, r.msg, overflow_checks)
                     IN  /\ Return(s.out)
                         /\ SetLocals(s.l)
    /\ UNCHANGED <<client, session, op, sent, calls, arrived, codec>>

\* recv_from fails: read returns the I/O error.
RecvIoError ==
    /\ Awaiting
    /\ Return(Result("IoError", 0))
    /\ UNCHANGED <<client, session, op, locals, rxq, sent, seen, calls,
                   arrived, codec>>

\* ------------------------------------------------------------------------
\* The network: datagrams reaching the socket
\* ------------------------------------------------------------------------
Arrive(d, limit) ==
    /\ pc # "aborted"
    /\ arrived < limit
    /\ Len(rxq) < MaxQueue
    /\ rxq' = Append(rxq, d)
    /\ arrived' = arrived + 1
    /\ UNCHANGED <<client, session, pc, op, locals, result, sent, seen, calls,
                   codec>>

Raw(pid, first) == CounterSerialize([fragment_id |-> 0, packet_id |-> pid,
                                     first_fragment |-> first]).raw_packet_id

InvFrame(ip, opcode, src, err, frag, pid, first, payload) ==
    Frame(ip, SMA_FOURCC, SMA_PROTOCOL_INV, opcode, Dummy, src, err, frag,
          Raw(pid, first), payload)

GddFrame(err, frag, pid, first, payload) ==
    InvFrame(RemoteIp, OPCODE_GET_DAY_DATA, Device, err, frag, pid, first,
             payload)

BadFourCC(ip) ==
    Frame(ip, OTHER_FOURCC, SMA_PROTOCOL_INV, OPCODE_IDENTIFY, Dummy, Device,
          0, 0, 0, <<>>)

BadProtocol(ip) ==
    Frame(ip, SMA_FOURCC, OTHER_PROTOCOL, 0, Dummy, Device, 0, 0, 0, <<>>)

BadOpcode(ip) ==
    Frame(ip, SMA_FOURCC, SMA_PROTOCOL_INV, OTHER_OPCODE, Dummy, Device,
          0, 0, 0, <<>>)

EmFrame(ip) ==
    Frame(ip, SMA_FOURCC, SMA_PROTOCOL_EM, 0, Broadcast, Device, 0, 0, 0,
          <<>>)

\* What reaches the socket while the host program fetches day data: response
\* fragments for packet id p, one of them from another device to another
\* client, one for the following packet id, a frame of another variant.
GddTraffic(p) ==
    { GddFrame(0, 0, p, TRUE, <<1>>),
      GddFrame(0, 2, p, TRUE, <<2>>),
      GddFrame(0, 65535, p, TRUE, <<>>),
      GddFrame(0, 1, p, FALSE, <<3>>),
      Frame(RemoteIp, SMA_FOURCC, SMA_PROTOCOL_INV, OPCODE_GET_DAY_DATA,
            Client2, Device2, 0, 0, Raw(p, FALSE), <<4>>),
      GddFrame(21, 1, p, FALSE, <<5>>),
      GddFrame(21, 1, p, TRUE, <<6>>),
      GddFrame(0, 0, NextPacketId(p), TRUE, <<7>>),
      InvFrame(RemoteIp, OPCODE_IDENTIFY, Device, 0, 0, p, TRUE, <<>>) }

\* What reaches the socket while the host program identifies, logs in and
\* out: responses for packet id p and for the following one, from the
\* remote address and from another one, two of them from another device to
\* another client, and datagrams the decoder rejects.
CtlTraffic(p) ==
    { InvFrame(RemoteIp, OPCODE_IDENTIFY, Device, 0, 0, p, TRUE, <<>>),
      InvFrame(RemoteIp, OPCODE_IDENTIFY, Device, 21, 0, p, TRUE, <<>>),
      Frame(OtherIp, SMA_FOURCC, SMA_PROTOCOL_INV, OPCODE_IDENTIFY, Client2,
            Device2, 0, 0, Raw(p, TRUE), <<>>),
      InvFrame(RemoteIp, OPCODE_IDENTIFY, Device2, 0, 0, NextPacketId(p),
               TRUE, <<>>),
      Frame(RemoteIp, SMA_FOURCC, SMA_PROTOCOL_INV, OPCODE_LOGIN, Client2,
            Device2, 0, 0, Raw(p, TRUE), <<>>),
      InvFrame(RemoteIp, OPCODE_LOGIN, Device, 21, 0, p, TRUE, <<>>),
      InvFrame(RemoteIp, OPCODE_LOGIN, Device, 21, 0, NextPacketId(p),
               TRUE, <<>>),
      EmFrame(RemoteIp),
      BadFourCC(RemoteIp), BadFourCC(OtherIp),
      BadProtocol(RemoteIp), BadProtocol(OtherIp),
      BadOpcode(RemoteIp),
      Truncated(BadProtocol(RemoteIp), PACKET_HEADER_LENGTH - 1),
      Truncated(InvFrame(RemoteIp, OPCODE_IDENTIFY, Device, 0, 0, p, TRUE,
                         <<>>), PACKET_HEADER_LENGTH) }

Passwords == {<<48, 48, 48, 48>>, <<233>>}

\* The host program identifies, logs in and logs out.
Next ==
    \/ calls < MaxCalls /\ \E io \in {"ok", "err"} : Identify(io)
    \/ calls < MaxCalls /\ \E pw \in Passwords, clock \in {"ok", "err"},
                               io \in {"ok", "err"} :
                               Login(Device, pw, clock, io)
    \/ calls < MaxCalls /\ Logout(Device)
    \/ Recv
    \/ RecvIoError
    \/ \E d \in CtlTraffic(packet_id) : Arrive(d, MaxArrive)

Spec == Init /\ [][Next]_vars

\* The host program fetches day data.
NextGdd ==
    \/ calls < MaxCalls /\ \E io \in {"ok", "err"} : GetDayData(Device, io)
    \/ Recv
    \/ RecvIoError
    \/ \E d \in GddTraffic(packet_id) : Arrive(d, MaxFragments)

SpecGdd == Init /\ [][NextGdd]_vars

\* What reaches the socket while the host program makes any of its calls:
\* responses for packet id p that make each call fail or go on, a datagram
\* the decoder rejects and an energy meter message.
AnyTraffic(p) ==
    { InvFrame(RemoteIp, OPCODE_IDENTIFY, Device, 21, 0, p, TRUE, <<>>),
      InvFrame(RemoteIp, OPCODE_LOGIN, Device, 0, 0, p, TRUE, <<>>),
      InvFrame(RemoteIp, OPCODE_LOGIN, Device, 21, 0, p, TRUE, <<>>),
      GddFrame(0, 1, p, TRUE, <<1>>),
      GddFrame(21, 1, p, FALSE, <<5>>),
      BadFourCC(RemoteIp),
      EmFrame(RemoteIp) }

\* The host program makes any of the six calls.
NextAny ==
    \/ calls < MaxCalls /\ \E io \in {"ok", "err"} : Identify(io)
    \/ calls < MaxCalls /\ \E pw \in Passwords, clock \in {"ok", "err"},
                               io \in {"ok", "err"} :
                               Login(Device, pw, clock, io)
    \/ calls < MaxCalls /\ Logout(Device)
    \/ calls < MaxCalls /\ \E io \in {"ok", "err"} : GetDayData(Device, io)
    \/ calls < MaxCalls /\ ReadEmMessage
    \/ calls < MaxCalls /\ \E io \in {"ok", "err"} : WriteEmMessage(io)
    \/ Recv
    \/ RecvIoError
    \/ \E d \in AnyTraffic(packet_id) : Arrive(d, MaxArrive)

SpecAny == Init /\ [][NextAny]_vars

\* The host program makes calls without end on a silent network; a pending
\* read ends when recv_from fails.
NextWrap ==
    \/ Identify("ok")
    \/ \E pw \in Passwords : Login(Device, pw, "ok", "ok")
    \/ Logout(Device)
    \/ GetDayData(Device, "ok")
    \/ RecvIoError

SpecWrap == Init /\ [][NextWrap]_vars

\* ========================================================================
\* The wire codec, byte by byte
\* ========================================================================
\* A buffer is a sequence of bytes 0..255 and a cursor position counts the
\* bytes before it.  u16 values are integers; a u32 is written <<hi, lo>> in
\* 16-bit halves and a u64 <<w3, w2, w1, w0>> in 16-bit words, most
\* significant first.

START_TAG_LEN == 4
START_TAG == 672
SMA_VERSION == 16
IDENTIFY_PAYLOAD_MIN == 8
IDENTIFY_PAYLOAD_MAX == 48
LOGIN_PAYLOAD_MIN == 16
LOGIN_PAYLOAD_MAX == 28
METER_VALUE_LENGTH == 12
OBIS_LENGTH_MIN == 8
OBIS_LENGTH_MAX == 12
EM_MAX_RECORD_COUNT == 80
GDD_MAX_RECORD_COUNT == 81
BUFFER_SIZE == 1030

Word(v) == <<v \div U16, v % U16>>

\* Cursor::write_u16 / write_u24 / write_u32 / write_u64 with a byte order.
W16(v, order) ==
    IF order = "BE" THEN <<v \div 256, v % 256>> ELSE <<v % 256, v \div 256>>

W24(v) == <<v \div U16, (v \div 256) % 256, v % 256>>

W32(w, order) ==
    IF order = "BE" THEN W16(w[1], order) \o W16(w[2], order)
                    ELSE W16(w[2], order) \o W16(w[1], order)

W64(q, order) ==
    IF order = "BE"
    THEN W32(<<q[1], q[2]>>, order) \o W32(<<q[3], q[4]>>, order)
    ELSE W32(<<q[3], q[4]>>, order) \o W32(<<q[1], q[2]>>, order)

\* Cursor::read_u16 / read_u24 / read_u32 / read_u64 at position p.
R16(b, p, order) ==
    IF order = "BE" THEN b[p + 1] * 256 + b[p + 2]
                    ELSE b[p + 2] * 256 + b[p + 1]

R24(b, p) == (b[p + 1] * 256 + b[p + 2]) * 256 + b[p + 3]

R32(b, p, order) ==
    IF order = "BE" THEN <<R16(b, p, order), R16(b, p + 2, order)>>
                    ELSE <<R16(b, p + 2, order), R16(b, p, order)>>

R64(b, p, order) ==
    IF order = "BE" THEN R32(b, p, order) \o R32(b, p + 4, order)
                    ELSE R32(b, p + 4, order) \o R32(b, p, order)

Zeros(n) == [i \in 1..n |-> 0]

\* What a serialize call returns: Ok or an error kind, with the bytes it
\* wrote (and the error's field); what a deserialize call returns: Ok with the value and the cursor
\* position reached, or an error kind.  "Panic" is a call that aborted.
Wrote(k, v, bytes) == [k |-> k, v |-> v, bytes |-> bytes]
Got(v, p) == [k |-> "Ok", v |-> v, p |-> p]
Fail(k, v) == [k |-> k, v |-> v]

\* SmaEndpoint
EndpointSerialize(e) == W16(e.susy_id, "BE") \o W32(e.serial, "BE")

EndpointDeserialize(b, p) ==
    [susy_id |-> R16(b, p, "BE"), serial |-> R32(b, p + 2, "BE")]

\* SmaPacketHeader::serialize: (data_len + 2) as u16 truncates.
HeaderSerialize(data_len, protocol) ==
    W32(Word(SMA_FOURCC), "BE") \o W16(PACKET_HEADER_LENGTH \div 4, "BE")
    \o W16(START_TAG, "BE") \o W32(<<0, 1>>, "BE")
    \o W16((data_len + 2) % U16, "BE") \o W16(SMA_VERSION, "BE")
    \o W16(protocol, "BE")

\* SmaPacketHeader::deserialize at position 0.  The data length word minus 2
\* is a u16 subtraction: below 2 it aborts a build with overflow checks and
\* wraps otherwise.
HeaderDeserialize(b, checks) ==
    LET raw == R16(b, 12, "BE")
    IN  IF Len(b) < PACKET_HEADER_LENGTH
        THEN Fail("BufferTooSmall", Len(b))
        ELSE IF R32(b, 0, "BE") # Word(SMA_FOURCC)
        THEN Fail("InvalidFourCC", R32(b, 0, "BE"))
        ELSE IF R16(b, 4, "BE") # START_TAG_LEN
        THEN Fail("InvalidStartTagLen", R16(b, 4, "BE"))
        ELSE IF R16(b, 6, "BE") # START_TAG
        THEN Fail("InvalidStartTag", R16(b, 6, "BE"))
        ELSE IF R32(b, 8, "BE") # <<0, 1>>
        THEN Fail("InvalidGroup", R32(b, 8, "BE"))
        ELSE IF raw < 2 /\ checks
        THEN Fail("Panic", 0)
        ELSE IF R16(b, 14, "BE") # SMA_VERSION
        THEN Fail("UnsupportedVersion", R16(b, 14, "BE"))
        ELSE Got([data_len |-> (raw + U16 - 2) % U16,
                  protocol |-> R16(b, 16, "BE")], PACKET_HEADER_LENGTH)

\* SmaPacketFooter::serialize
FooterSerialize == Zeros(FOOTER_LENGTH)

FOOTER_LENGTH_SHORT == 2

\* SmaPacketFooter::deserialize from position p: the loop over 32-bit words.
RECURSIVE FooterWords(_, _)
FooterWords(b, p) ==
    IF Len(b) - p >= FOOTER_LENGTH
    THEN IF R32(b, p, "BE") # <<0, 0>>
         THEN Fail("InvalidPadding", R32(b, p, "BE"))
         ELSE FooterWords(b, p + 4)
    ELSE Got(<<>>, p)

\* SmaPacketFooter::deserialize with the 16-bit half-word left out.
FooterDeserializeWordsOnly(b, p) ==
    IF Len(b) - p < FOOTER_LENGTH_SHORT
    THEN Fail("BufferTooSmall", Len(b))
    ELSE LET w == FooterWords(b, p)
         IN  IF w.k # "Ok" THEN w
             ELSE IF Len(b) - w.p # 0
             THEN Fail("BufferNotConsumed", Len(b) - w.p)
             ELSE Got(<<>>, w.p)

\* SmaPacketFooter::deserialize asking for a whole 32-bit word first.
FooterDeserializeNeedsWord(b, p) ==
    IF Len(b) - p < FOOTER_LENGTH
    THEN Fail("BufferTooSmall", Len(b))
    ELSE LET w == FooterWords(b, p)
         IN  IF w.k # "Ok" THEN w
             ELSE IF Len(b) - w.p = FOOTER_LENGTH_SHORT
                     /\ R16(b, w.p, "BE") # 0
             THEN Fail("InvalidPadding", <<0, R16(b, w.p, "BE")>>)
             ELSE LET q == IF Len(b) - w.p = FOOTER_LENGTH_SHORT
                           THEN w.p + 2 ELSE w.p
                  IN  IF Len(b) - q # 0
                      THEN Fail("BufferNotConsumed", Len(b) - q)
                      ELSE Got(<<>>, q)

\* SmaPacketFooter::deserialize from position p.
FooterDeserialize(b, p) ==
    IF Len(b) - p < FOOTER_LENGTH_SHORT
    THEN Fail("BufferTooSmall", Len(b))
    ELSE LET w == FooterWords(b, p)
         IN  IF w.k # "Ok" THEN w
             ELSE IF Len(b) - w.p = FOOTER_LENGTH_SHORT
                     /\ R16(b, w.p, "BE") # 0
             THEN Fail("InvalidPadding", <<0, R16(b, w.p, "BE")>>)
             ELSE LET q == IF Len(b) - w.p = FOOTER_LENGTH_SHORT
                           THEN w.p + 2 ELSE w.p
                  IN  IF Len(b) - q # 0
                      THEN Fail("BufferNotConsumed", Len(b) - q)
                      ELSE Got(<<>>, q)

\* SmaInvCounter on the wire: two little-endian words.
CounterBytes(c) ==
    LET w == CounterSerialize(c)
    IN  W16(w.fragment_id, "LE") \o W16(w.raw_packet_id, "LE")

CounterFromBytes(b, p) ==
    CounterDeserialize(R16(b, p, "LE"), R16(b, p + 2, "LE"))

\* SmaInvHeader
InvHeader(wordcount, class, dst_ctrl, src_ctrl, channel, opcode, m) ==
    [wordcount |-> wordcount, class |-> class, dst |-> m.dst,
     dst_ctrl |-> dst_ctrl, src |-> m.src, src_ctrl |-> src_ctrl,
     error_code |-> m.error_code, counters |-> m.counters,
     channel |-> channel, opcode |-> opcode]

InvHeaderSerialize(h) ==
    <<h.wordcount, h.class>>
    \o EndpointSerialize(h.dst) \o W16(h.dst_ctrl, "BE")
    \o EndpointSerialize(h.src) \o W16(h.src_ctrl, "BE")
    \o W16(h.error_code, "BE") \o CounterBytes(h.counters)
    \o <<h.channel>> \o W24(h.opcode)

InvHeaderDeserialize(b, p) ==
    IF Len(b) - p < INV_HEADER_LENGTH
    THEN Fail("BufferTooSmall", Len(b))
    ELSE Got([wordcount |-> b[p + 1], class |-> b[p + 2],
              dst |-> EndpointDeserialize(b, p + 2),
              dst_ctrl |-> R16(b, p + 8, "BE"),
              src |-> EndpointDeserialize(b, p + 10),
              src_ctrl |-> R16(b, p + 16, "BE"),
              error_code |-> R16(b, p + 18, "BE"),
              counters |-> CounterFromBytes(b, p + 20),
              channel |-> b[p + 25], opcode |-> R24(b, p + 25)],
             p + INV_HEADER_LENGTH)

\* SmaInvHeader::check_wordcount, check_class and check_opcode: the first
\* failing check of a decoder that accepts the classes in the set classes,
\* "" when all pass.
HeaderChecks(hdr, inv, classes, opcode) ==
    IF inv.wordcount * 4 # hdr.data_len
    THEN Fail("InvalidWordcount", inv.wordcount)
    ELSE IF inv.class \notin classes
    THEN Fail("UnsupportedCommandClass", inv.class)
    ELSE IF inv.opcode # opcode
    THEN Fail("UnsupportedOpcode", inv.opcode)
    ELSE Fail("", 0)

\* The part every inverter decoder starts with: the minimum length, the outer
\* header, the protocol tag, the declared data length, the inverter header
\* and its checks.
InvPrologue(b, length_min, classes, opcode, checks) ==
    LET hdr == HeaderDeserialize(b, checks)
        inv == InvHeaderDeserialize(b, PACKET_HEADER_LENGTH)
        chk == HeaderChecks(hdr.v, inv.v, classes, opcode)
    IN  IF Len(b) < length_min THEN Fail("BufferTooSmall", Len(b))
        ELSE IF hdr.k # "Ok" THEN hdr
        ELSE IF hdr.v.protocol # SMA_PROTOCOL_INV
        THEN Fail("UnsupportedProtocol", hdr.v.protocol)
        ELSE IF Len(b) - PACKET_HEADER_LENGTH < hdr.v.data_len
        THEN Fail("BufferTooSmall", Len(b))
        ELSE IF inv.k # "Ok" THEN inv
        ELSE IF chk.k # "" THEN chk
        ELSE Got([data_len |-> hdr.v.data_len, inv |-> inv.v],
                 PACKET_HEADER_LENGTH + INV_HEADER_LENGTH)

\* An Option is a sequence: <<>> for None, <<x>> for Some(x).
IsSome(o) == o # <<>>

InvLength(payload_len) ==
    PACKET_HEADER_LENGTH + INV_HEADER_LENGTH + payload_len + FOOTER_LENGTH

\* usize subtraction a - b: [v |-> the difference, wrapped |-> b > a]; a
\* wrapped difference is larger than any length.
SubUsize(a, b) == [v |-> a - b, wrapped |-> b > a]

\* ------------------------------------------------------------------------
\* SmaInvIdentify
\* ------------------------------------------------------------------------
IdentifySerialize(m, cap) ==
    LET some == IsSome(m.identity)
        payload_len == IF some THEN IDENTIFY_PAYLOAD_MAX
                               ELSE IDENTIFY_PAYLOAD_MIN
        data_len == INV_HEADER_LENGTH + payload_len
        inv == InvHeader((data_len \div 4) % 256, 160,
                         IF some THEN 192 ELSE 0, 0,
                         IF some THEN 1 ELSE 0, OPCODE_IDENTIFY, m)
    IN  IF cap < InvLength(payload_len)
        THEN Wrote("BufferTooSmall", cap, <<>>)
        ELSE Wrote("Ok", 0,
                   HeaderSerialize(data_len, SMA_PROTOCOL_INV)
                   \o InvHeaderSerialize(inv)
                   \o (IF some THEN m.identity[1]
                               ELSE Zeros(IDENTIFY_PAYLOAD_MIN))
                   \o FooterSerialize)

IdentifyDeserialize(b, checks) ==
    LET pro == InvPrologue(b, InvLength(IDENTIFY_PAYLOAD_MIN), {160},
                           OPCODE_IDENTIFY, checks)
        payload_len == SubUsize(pro.v.data_len, INV_HEADER_LENGTH)
        some == payload_len.wrapped \/ payload_len.v >= IDENTIFY_PAYLOAD_MAX
        p == pro.p + (IF some THEN IDENTIFY_PAYLOAD_MAX
                              ELSE IDENTIFY_PAYLOAD_MIN)
        foot == FooterDeserialize(b, p)
    IN  IF pro.k # "Ok" THEN pro
        ELSE IF payload_len.wrapped /\ checks THEN Fail("Panic", 0)
        ELSE IF some /\ Len(b) < p THEN Fail("Panic", 0)
        ELSE IF foot.k # "Ok" THEN foot
        ELSE Got([variant |-> "InvIdentify",
                  dst |-> pro.v.inv.dst, src |-> pro.v.inv.src,
                  error_code |-> pro.v.inv.error_code,
                  counters |-> pro.v.inv.counters,
                  identity |-> IF some THEN <<SubSeq(b, pro.p + 1, p)>>
                                       ELSE <<>>],
                 foot.p)

\* ------------------------------------------------------------------------
\* SmaInvLogout
\* ------------------------------------------------------------------------
LogoutSerialize(m, cap) ==
    LET data_len == INV_HEADER_LENGTH + 4
        inv == InvHeader((data_len \div 4) % 256, 160, 3, 3, 14,
                         OPCODE_LOGOUT, m)
    IN  IF cap < InvLength(4)
        THEN Wrote("BufferTooSmall", cap, <<>>)
        ELSE Wrote("Ok", 0,
                   HeaderSerialize(data_len, SMA_PROTOCOL_INV)
                   \o InvHeaderSerialize(inv)
                   \o W32(<<65535, 65535>>, "LE")
                   \o FooterSerialize)

LogoutDeserialize(b, checks) ==
    LET pro == InvPrologue(b, InvLength(4), {160}, OPCODE_LOGOUT, checks)
        padding == R32(b, pro.p, "LE")
        foot == FooterDeserialize(b, pro.p + 4)
    IN  IF pro.k # "Ok" THEN pro
        ELSE IF padding # <<65535, 65535>>
        THEN Fail("InvalidPadding", padding)
        ELSE IF foot.k # "Ok" THEN foot
        ELSE Got([variant |-> "InvLogout",
                  dst |-> pro.v.inv.dst, src |-> pro.v.inv.src,
                  error_code |-> pro.v.inv.error_code,
                  counters |-> pro.v.inv.counters],
                 foot.p)

\* ------------------------------------------------------------------------
\* SmaInvLogin
\* ------------------------------------------------------------------------
\* The password bytes before the first one for which char + 0x88 leaves u8.
BeforeOverflow(pw) ==
    SubSeq(pw, 1, (CHOOSE i \in 1..Len(pw) :
                       /\ pw[i] + 136 > 255
                       /\ \A j \in 1..(i - 1) : pw[j] + 136 <= 255) - 1)

LoginSerialize(m, cap, checks) ==
    LET some == IsSome(m.password)
        payload_len == IF some THEN LOGIN_PAYLOAD_MAX ELSE LOGIN_PAYLOAD_MIN
        data_len == INV_HEADER_LENGTH + payload_len
        class == IF some THEN (IF m.error_code = 0 THEN 160 ELSE 208)
                         ELSE 224
        inv == InvHeader((data_len \div 4) % 256, class, 1, 1,
                         IF some THEN 12 ELSE 13, OPCODE_LOGIN, m)
        head == HeaderSerialize(data_len, SMA_PROTOCOL_INV)
                \o InvHeaderSerialize(inv)
                \o W32(m.user_group, "LE") \o W32(m.timeout, "LE")
                \o W32(m.timestamp, "LE") \o Zeros(4)
    IN  IF cap < InvLength(payload_len)
        THEN Wrote("BufferTooSmall", cap, <<>>)
        ELSE IF some /\ checks
                /\ \E i \in 1..PASSWORD_LEN : m.password[1][i] + 136 > 255
        THEN Wrote("Panic", 0,
                   head \o Obfuscate(BeforeOverflow(m.password[1])))
        ELSE Wrote("Ok", 0,
                   head
                   \o (IF some THEN Obfuscate(m.password[1]) ELSE <<>>)
                   \o FooterSerialize)

LoginDeserialize(b, checks) ==
    LET pro == InvPrologue(b, InvLength(LOGIN_PAYLOAD_MIN), {160, 208, 224},
                           OPCODE_LOGIN, checks)
        padding == R32(b, pro.p + 12, "LE")
        payload_len == SubUsize(pro.v.data_len, INV_HEADER_LENGTH)
        some == payload_len.wrapped \/ payload_len.v >= LOGIN_PAYLOAD_MAX
        p == pro.p + (IF some THEN LOGIN_PAYLOAD_MAX ELSE LOGIN_PAYLOAD_MIN)
        wire == SubSeq(b, pro.p + LOGIN_PAYLOAD_MIN + 1, p)
        foot == FooterDeserialize(b, p)
    IN  IF pro.k # "Ok" THEN pro
        ELSE IF padding # <<0, 0>> THEN Fail("InvalidPadding", padding)
        ELSE IF payload_len.wrapped /\ checks THEN Fail("Panic", 0)
        ELSE IF some /\ Len(b) < p THEN Fail("Panic", 0)
        ELSE IF some /\ checks /\ \E i \in 1..PASSWORD_LEN : wire[i] < 136
        THEN Fail("Panic", 0)
        ELSE IF foot.k # "Ok" THEN foot
        ELSE Got([variant |-> "InvLogin",
                  dst |-> pro.v.inv.dst, src |-> pro.v.inv.src,
                  error_code |-> pro.v.inv.error_code,
                  counters |-> pro.v.inv.counters,
                  user_group |-> R32(b, pro.p, "LE"),
                  timeout |-> R32(b, pro.p + 4, "LE"),
                  timestamp |-> R32(b, pro.p + 8, "LE"),
                  password |-> IF some THEN <<Clarify(wire)>> ELSE <<>>],
                 foot.p)

\* Concatenation of a sequence of byte sequences.
RECURSIVE Flat(_)
Flat(q) == IF q = <<>> THEN <<>> ELSE Head(q) \o Flat(Tail(q))

\* Whether a record loop goes round again: remaining() - padding_len >= need
\* in usize.  When the subtraction wraps, a build with overflow checks
\* aborts ("panic") and any other build sees a huge number ("go").
LoopTest(rem, padding_len, need, checks) ==
    IF rem < padding_len THEN (IF checks THEN "panic" ELSE "go")
    ELSE IF rem - padding_len >= need THEN "go" ELSE "stop"

\* A record loop that has collected v and goes round again at position p.
Going(v, p) == [k |-> "Go", v |-> v, p |-> p]

\* Every turn of a record loop that does not end it moves the cursor by at
\* least need bytes, so the loop over b ends within this many turns.
Turns(b, need) == Len(b) \div need + 1

\* SmaContainer::push: a std Vec grows, a heapless::Vec of capacity capacity
\* refuses when full.
PushFails(isStd, len, capacity) == len >= capacity /\ ~isStd

\* ------------------------------------------------------------------------
\* SmaInvMeterValue and SmaInvGetDayData
\* ------------------------------------------------------------------------
MeterValueSerialize(r) == W32(r.timestamp, "LE") \o W64(r.energy_wh, "LE")

MeterValueDeserializeBE(b, p) ==
    IF Len(b) - p < METER_VALUE_LENGTH
    THEN Fail("BufferTooSmall", Len(b))
    ELSE Got([timestamp |-> R32(b, p, "LE"),
              energy_wh |-> R64(b, p + 4, "BE")], p + METER_VALUE_LENGTH)

MeterValueDeserialize(b, p) ==
    IF Len(b) - p < METER_VALUE_LENGTH
    THEN Fail("BufferTooSmall", Len(b))
    ELSE Got([timestamp |-> R32(b, p, "LE"),
              energy_wh |-> R64(b, p + 4, "LE")], p + METER_VALUE_LENGTH)

GetDayDataSerializeChecksMin(m, cap) ==
    LET n == Len(m.records)
        length == InvLength(8) + n * METER_VALUE_LENGTH
        data_len == length - PACKET_HEADER_LENGTH - FOOTER_LENGTH
        inv == InvHeader((data_len \div 4) % 256, 224,
                         IF n = 0 THEN 0 ELSE 160, 0,
                         IF n = 0 THEN 0 ELSE 1, OPCODE_GET_DAY_DATA, m)
    IN  IF n > GDD_MAX_RECORD_COUNT THEN Wrote("PayloadTooLarge", n, <<>>)
        ELSE IF cap < InvLength(8) THEN Wrote("BufferTooSmall", cap, <<>>)
        ELSE Wrote("Ok", 0,
                   HeaderSerialize(data_len, SMA_PROTOCOL_INV)
                   \o InvHeaderSerialize(inv)
                   \o W32(m.start_time_idx, "LE")
                   \o W32(m.end_time_idx, "LE")
                   \o Flat([i \in 1..n |-> MeterValueSerialize(m.records[i])])
                   \o FooterSerialize)

GetDayDataSerialize(m, cap) ==
    LET n == Len(m.records)
        length == InvLength(8) + n * METER_VALUE_LENGTH
        data_len == length - PACKET_HEADER_LENGTH - FOOTER_LENGTH
        inv == InvHeader((data_len \div 4) % 256, 224,
                         IF n = 0 THEN 0 ELSE 160, 0,
                         IF n = 0 THEN 0 ELSE 1, OPCODE_GET_DAY_DATA, m)
    IN  IF n > GDD_MAX_RECORD_COUNT THEN Wrote("PayloadTooLarge", n, <<>>)
        ELSE IF cap < length THEN Wrote("BufferTooSmall", cap, <<>>)
        ELSE Wrote("Ok", 0,
                   HeaderSerialize(data_len, SMA_PROTOCOL_INV)
                   \o InvHeaderSerialize(inv)
                   \o W32(m.start_time_idx, "LE")
                   \o W32(m.end_time_idx, "LE")
                   \o Flat([i \in 1..n |-> MeterValueSerialize(m.records[i])])
                   \o FooterSerialize)

\* One turn of the record loop of SmaInvGetDayData::deserialize with the
\* records s.v collected and the cursor at s.p: the loop goes on ("Go"),
\* ends ("Ok") or returns an error.
GetDayDataTurn(b, s, padding_len, checks, isStd) ==
    LET t == LoopTest(Len(b) - s.p, padding_len, METER_VALUE_LENGTH, checks)
        r == MeterValueDeserialize(b, s.p)
    IN  IF t = "panic" THEN Fail("Panic", 0)
        ELSE IF t = "stop" THEN Got(s.v, s.p)
        ELSE IF r.k # "Ok" THEN r
        ELSE IF PushFails(isStd, Len(s.v), GDD_MAX_RECORD_COUNT)
        THEN Fail("PayloadTooLarge", Len(s.v) + 1)
        ELSE Going(Append(s.v, r.v), r.p)

\* The loop from state s for at most n turns, the first half of them and
\* then the rest.
RECURSIVE GetDayDataRecords(_, _, _, _, _, _)
GetDayDataRecords(b, s, n, padding_len, checks, isStd) ==
    IF s.k # "Go" \/ n = 0 THEN s
    ELSE IF n = 1 THEN GetDayDataTurn(b, s, padding_len, checks, isStd)
    ELSE LET half == GetDayDataRecords(b, s, n \div 2, padding_len, checks,
                                       isStd)
         IN  GetDayDataRecords(b, half, n - (n \div 2), padding_len, checks,
                               isStd)

GetDayDataDeserialize(b, checks, isStd) ==
    LET pro == InvPrologue(b, InvLength(8), {224}, OPCODE_GET_DAY_DATA,
                           checks)
        padding_len == Len(b) - PACKET_HEADER_LENGTH - pro.v.data_len
        recs == GetDayDataRecords(b, Going(<<>>, pro.p + 8),
                                  Turns(b, METER_VALUE_LENGTH), padding_len,
                                  checks, isStd)
        foot == FooterDeserialize(b, recs.p)
    IN  IF pro.k # "Ok" THEN pro
        ELSE IF recs.k # "Ok" THEN recs
        ELSE IF foot.k # "Ok" THEN foot
        ELSE Got([variant |-> "InvGetDayData",
                  dst |-> pro.v.inv.dst, src |-> pro.v.inv.src,
                  error_code |-> pro.v.inv.error_code,
                  counters |-> pro.v.inv.counters,
                  start_time_idx |-> R32(b, pro.p, "LE"),
                  end_time_idx |-> R32(b, pro.p + 4, "LE"),
                  records |-> recs.v],
                 foot.p)

\* ------------------------------------------------------------------------
\* ObisValue: id is a u32 <<hi, lo>>, value a u64 <<w3, w2, w1, w0>>
\* ------------------------------------------------------------------------
ObisIs32AnyVersion(id) == id[1] = 36864 \/ (id[2] \div 256) = 4

\* id == 0x90000000 || id & 0xFF00 == 0x0400
ObisIs32(id) == id = <<36864, 0>> \/ (id[2] \div 256) = 4

\* id & 0xFF00 == 0x0800
ObisIs64(id) == (id[2] \div 256) = 8

ObisSerializedLen(o) ==
    IF ObisIs32(o.id) THEN 8 ELSE IF ObisIs64(o.id) THEN 12 ELSE 0

ObisValidate(o) == ObisIs32(o.id) \/ ObisIs64(o.id)

\* ObisValue::serialize into cap free bytes: value as u32 keeps the low 32
\* bits.
ObisSerialize(o, cap) ==
    IF ~ObisValidate(o) THEN Wrote("UnsupportedObisId", o.id, <<>>)
    ELSE IF cap < ObisSerializedLen(o) THEN Wrote("BufferTooSmall", cap, <<>>)
    ELSE Wrote("Ok", 0,
               W32(o.id, "BE")
               \o (IF ObisIs32(o.id)
                   THEN W32(<<o.value[3], o.value[4]>>, "BE")
                   ELSE IF ObisIs64(o.id) THEN W64(o.value, "BE")
                   ELSE <<>>))

ObisDeserialize(b, p) ==
    LET id == R32(b, p, "BE")
    IN  IF Len(b) - p < OBIS_LENGTH_MIN
        THEN Fail("BufferTooSmall", Len(b))
        ELSE IF ObisIs32(id)
        THEN Got([id |-> id, value |-> <<0, 0>> \o R32(b, p + 4, "BE")],
                 p + 8)
        ELSE IF ObisIs64(id)
        THEN IF Len(b) - (p + 4) < 8
             THEN Fail("BufferTooSmall", Len(b))
             ELSE Got([id |-> id, value |-> R64(b, p + 4, "BE")], p + 12)
        ELSE Fail("UnsupportedObisId", id)

\* ------------------------------------------------------------------------
\* SmaEmMessageBase
\* ------------------------------------------------------------------------
RECURSIVE SumLen(_)
SumLen(q) ==
    IF q = <<>> THEN 0 ELSE ObisSerializedLen(Head(q)) + SumLen(Tail(q))

\* The payload loop of SmaEmMessageBase::serialize after acc was written:
\* validate, then serialize, each value in turn; the bytes written and the
\* error that stopped the loop, "Ok" when none did.
EmPayload(q, acc) ==
    LET bad == {i \in 1..Len(q) : ~ObisValidate(q[i])}
        stop == IF bad = {} THEN Len(q) + 1
                ELSE CHOOSE i \in bad : \A j \in bad : i <= j
        bytes == acc \o Flat([i \in 1..(stop - 1) |->
                                ObisSerialize(q[i], OBIS_LENGTH_MAX).bytes])
    IN  IF bad = {} THEN Wrote("Ok", 0, bytes)
        ELSE Wrote("UnsupportedObisId", q[stop].id, bytes)

EmSerialize(m, cap) ==
    LET length == EM_LENGTH_MIN + SumLen(m.payload)
        data_len == length - PACKET_HEADER_LENGTH - FOOTER_LENGTH
        body == EmPayload(m.payload,
                          HeaderSerialize(data_len, SMA_PROTOCOL_EM)
                          \o EndpointSerialize(m.src)
                          \o W32(m.timestamp_ms, "BE"))
    IN  IF Len(m.payload) > EM_MAX_RECORD_COUNT
        THEN Wrote("PayloadTooLarge", Len(m.payload), <<>>)
        ELSE IF cap < length THEN Wrote("BufferTooSmall", cap, <<>>)
        ELSE IF body.k # "Ok" THEN body
        ELSE Wrote("Ok", 0, body.bytes \o FooterSerialize)

\* One turn of the record loop of SmaEmMessageBase::deserialize.
EmTurn(b, s, padding_len, checks, isStd) ==
    LET t == LoopTest(Len(b) - s.p, padding_len, OBIS_LENGTH_MIN, checks)
        r == ObisDeserialize(b, s.p)
    IN  IF t = "panic" THEN Fail("Panic", 0)
        ELSE IF t = "stop" THEN Got(s.v, s.p)
        ELSE IF r.k # "Ok" THEN r
        ELSE IF PushFails(isStd, Len(s.v), EM_MAX_RECORD_COUNT)
        THEN Fail("PayloadTooLarge", Len(s.v) + 1)
        ELSE Going(Append(s.v, r.v), r.p)

\* The loop from state s for at most n turns.
RECURSIVE EmRecords(_, _, _, _, _, _)
EmRecords(b, s, n, padding_len, checks, isStd) ==
    IF s.k # "Go" \/ n = 0 THEN s
    ELSE IF n = 1 THEN EmTurn(b, s, padding_len, checks, isStd)
    ELSE LET half == EmRecords(b, s, n \div 2, padding_len, checks, isStd)
         IN  EmRecords(b, half, n - (n \div 2), padding_len, checks, isStd)

EmDeserialize(b, checks, isStd) ==
    LET hdr == HeaderDeserialize(b, checks)
        padding_len == Len(b) - PACKET_HEADER_LENGTH - hdr.v.data_len
        recs == EmRecords(b, Going(<<>>, PACKET_HEADER_LENGTH + 10),
                          Turns(b, OBIS_LENGTH_MIN), padding_len, checks,
                          isStd)
        foot == FooterDeserialize(b, recs.p)
    IN  IF Len(b) < EM_LENGTH_MIN THEN Fail("BufferTooSmall", Len(b))
        ELSE IF hdr.k # "Ok" THEN hdr
        ELSE IF hdr.v.protocol # SMA_PROTOCOL_EM
        THEN Fail("UnsupportedProtocol", hdr.v.protocol)
        ELSE IF Len(b) - PACKET_HEADER_LENGTH < hdr.v.data_len
        THEN Fail("BufferTooSmall", Len(b))
        ELSE IF recs.k # "Ok" THEN recs
        ELSE IF foot.k # "Ok" THEN foot
        ELSE Got([variant |-> "EmMessage",
                  src |-> EndpointDeserialize(b, PACKET_HEADER_LENGTH),
                  timestamp_ms |-> R32(b, PACKET_HEADER_LENGTH + 6, "BE"),
                  payload |-> recs.v],
                 foot.p)

\* ------------------------------------------------------------------------
\* AnySmaMessageBase over bytes
\* ------------------------------------------------------------------------
AnySmaMessageSerialize(m, cap, checks) ==
    CASE m.variant = "EmMessage" -> EmSerialize(m, cap)
      [] m.variant = "InvGetDayData" -> GetDayDataSerialize(m, cap)
      [] m.variant = "InvIdentify" -> IdentifySerialize(m, cap)
      [] m.variant = "InvLogin" -> LoginSerialize(m, cap, checks)
      [] m.variant = "InvLogout" -> LogoutSerialize(m, cap)

AnySmaMessageDeserializeOpcodeAt42(b, checks, isStd) ==
    LET protocol == R16(b, 16, "BE")
        opcode == R24(b, 42)
    IN  IF Len(b) < PACKET_HEADER_LENGTH
        THEN Fail("BufferTooSmall", Len(b))
        ELSE IF R32(b, 0, "BE") # Word(SMA_FOURCC)
        THEN Fail("InvalidFourCC", R32(b, 0, "BE"))
        ELSE IF protocol = SMA_PROTOCOL_EM
        THEN EmDeserialize(b, checks, isStd)
        ELSE IF protocol = SMA_PROTOCOL_INV
        THEN IF Len(b) < PACKET_HEADER_LENGTH + INV_HEADER_LENGTH
             THEN Fail("BufferTooSmall", Len(b))
             ELSE IF opcode = OPCODE_GET_DAY_DATA
             THEN GetDayDataDeserialize(b, checks, isStd)
             ELSE IF opcode = OPCODE_IDENTIFY
             THEN IdentifyDeserialize(b, checks)
             ELSE IF opcode = OPCODE_LOGIN
             THEN LoginDeserialize(b, checks)
             ELSE IF opcode = OPCODE_LOGOUT
             THEN LogoutDeserialize(b, checks)
             ELSE Fail("UnsupportedOpcode", opcode)
        ELSE Fail("UnsupportedProtocol", protocol)

AnySmaMessageDeserialize(b, checks, isStd) ==
    LET protocol == R16(b, 16, "BE")
        opcode == R24(b, 43)
    IN  IF Len(b) < PACKET_HEADER_LENGTH
        THEN Fail("BufferTooSmall", Len(b))
        ELSE IF R32(b, 0, "BE") # Word(SMA_FOURCC)
        THEN Fail("InvalidFourCC", R32(b, 0, "BE"))
        ELSE IF protocol = SMA_PROTOCOL_EM
        THEN EmDeserialize(b, checks, isStd)
        ELSE IF protocol = SMA_PROTOCOL_INV
        THEN IF Len(b) < PACKET_HEADER_LENGTH + INV_HEADER_LENGTH
             THEN Fail("BufferTooSmall", Len(b))
             ELSE IF opcode = OPCODE_GET_DAY_DATA
             THEN GetDayDataDeserialize(b, checks, isStd)
             ELSE IF opcode = OPCODE_IDENTIFY
             THEN IdentifyDeserialize(b, checks)
             ELSE IF opcode = OPCODE_LOGIN
             THEN LoginDeserialize(b, checks)
             ELSE IF opcode = OPCODE_LOGOUT
             THEN LogoutDeserialize(b, checks)
             ELSE Fail("UnsupportedOpcode", opcode)
        ELSE Fail("UnsupportedProtocol", protocol)

\* ========================================================================
\* The codec under test: messages are serialized, the frame is lengthened
\* by zero bytes or damaged, and deserialized again
\* ========================================================================
\* How many pairs of zero bytes are appended to a frame at most.
MaxPad == 2
\* How far past its capacity a payload goes at most.
MaxOver == 1
\* How many bytes are left for a footer at most.
MaxFooterLen == 9
\* How many characters a password string has at most.
MaxPwLen == 13

\* SmaInvCounter values.
CodecCounters ==
    {[packet_id |-> 1, fragment_id |-> 0, first_fragment |-> TRUE],
     [packet_id |-> 32767, fragment_id |-> 65535, first_fragment |-> FALSE]}

\* SmaInvCounter values whose packet_id does not fit 15 bits.
WideCounters ==
    {[packet_id |-> 32768 + 5, fragment_id |-> 0, first_fragment |-> f] :
        f \in BOOLEAN}

\* The fields every inverter message has.
InvCommon(dst, src, error_code, counters) ==
    [dst |-> dst, src |-> src, error_code |-> error_code,
     counters |-> counters]

InvCommons ==
    {InvCommon(Device, Dummy, 0, c) : c \in CodecCounters}
    \cup {InvCommon(Broadcast, Device, 21,
                    [packet_id |-> 2, fragment_id |-> 3,
                     first_fragment |-> TRUE])}

\* SmaInvIdentify.identity: [u8; PAYLOAD_MAX].
Identity == [i \in 1..IDENTIFY_PAYLOAD_MAX |-> i + 200]

IdentifyMessages ==
    {[variant |-> "InvIdentify", dst |-> c.dst, src |-> c.src,
      error_code |-> c.error_code, counters |-> c.counters,
      identity |-> i] : c \in InvCommons, i \in {<<>>, <<Identity>>}}

LogoutMessages ==
    {[variant |-> "InvLogout", dst |-> c.dst, src |-> c.src,
      error_code |-> c.error_code, counters |-> c.counters] :
        c \in InvCommons
              \cup {InvCommon(Device, Dummy, 0, w) : w \in WideCounters}}

\* Passwords as [u8; 12]: between them every byte value 0..255 occurs, and
\* the results of pw_from_str for "0000", "xyz" and "secret~".
CodecPasswords ==
    {[i \in 1..PASSWORD_LEN |-> (PASSWORD_LEN * k + i - 1) % 256] :
        k \in 0..(256 \div PASSWORD_LEN)}
    \cup {PwFromStr(<<48, 48, 48, 48>>).val,
          PwFromStr(<<120, 121, 122>>).val,
          PwFromStr(<<115, 101, 99, 114, 101, 116, 126>>).val}

LoginMessage(c, timestamp, password) ==
    [variant |-> "InvLogin", dst |-> c.dst, src |-> c.src,
     error_code |-> c.error_code, counters |-> c.counters,
     user_group |-> <<0, 7>>, timeout |-> <<0, 900>>,
     timestamp |-> timestamp, password |-> password]

LoginMessages ==
    {LoginMessage(c, <<25939, 61696>>, <<>>) : c \in InvCommons}
    \cup {LoginMessage(InvCommon(Device, Dummy, 0,
                                 [packet_id |-> 1, fragment_id |-> 0,
                                  first_fragment |-> TRUE]),
                       <<65535, 65534>>, <<pw>>) : pw \in CodecPasswords}

\* The i-th record of a day's data.
DayRecord(i) ==
    [timestamp |-> <<25939, 61696 + i>>,
     energy_wh |-> <<i % 2, 65535 * (i % 2), 194, 38902 + i>>]

GetDayDataMessage(c, n) ==
    [variant |-> "InvGetDayData", dst |-> c.dst, src |-> c.src,
     error_code |-> c.error_code, counters |-> c.counters,
     start_time_idx |-> <<25939, 0>>, end_time_idx |-> <<25940, 20864>>,
     records |-> [i \in 1..n |-> DayRecord(i)]]

GetDayDataMessages ==
    {GetDayDataMessage(c, 0) : c \in InvCommons}
    \cup {GetDayDataMessage(InvCommon(Dummy, Device, 0,
                                      [packet_id |-> 7, fragment_id |-> 1,
                                       first_fragment |-> FALSE]), n) :
            n \in {1, 2} \cup (GDD_MAX_RECORD_COUNT
                               ..(GDD_MAX_RECORD_COUNT + MaxOver))}

\* OBIS values: a 32-bit and a 64-bit measurement, the software version,
\* a 32-bit id with a value that needs more than 32 bits, and ids of no
\* supported family.
Obis32(i) == [id |-> <<1, 1024 + (i % 256)>>, value |-> <<0, 0, i, 65535 - i>>]
Obis64(i) == [id |-> <<1, 2048 + (i % 256)>>, value |-> <<i, 1, i, 65535 - i>>]
ObisVersion == [id |-> <<36864, 0>>, value |-> <<0, 0, 258, 1106>>]
ObisWide == [id |-> <<1, 1024>>, value |-> <<0, 1, 0, 5>>]
ObisForeign == {[id |-> <<1, 768>>, value |-> <<0, 0, 0, 5>>],
                [id |-> <<36864, 1>>, value |-> <<0, 0, 0, 5>>]}

EmMessage(payload) ==
    [variant |-> "EmMessage", src |-> Device, timestamp_ms |-> <<4660, 22136>>,
     payload |-> payload]

\* n OBIS values, 32-bit and 64-bit ones in turn.
ObisRun(n) == [i \in 1..n |-> IF i % 2 = 1 THEN Obis32(i) ELSE Obis64(i)]

EmMessages ==
    {EmMessage(ObisRun(n)) :
        n \in {0, 1, 2} \cup (EM_MAX_RECORD_COUNT
                              ..(EM_MAX_RECORD_COUNT + MaxOver))}
    \cup {EmMessage([i \in 1..EM_MAX_RECORD_COUNT |-> Obis64(i)])}
    \cup {EmMessage(<<Obis32(1), Obis64(2), ObisVersion>>),
          EmMessage(<<ObisWide>>)}
    \cup {EmMessage(<<o>>) : o \in ObisForeign}
    \cup {EmMessage(<<Obis32(1), o, Obis64(2)>>) : o \in ObisForeign}

Messages ==
    EmMessages \cup GetDayDataMessages \cup IdentifyMessages
    \cup LoginMessages \cup LogoutMessages

MessageVariants ==
    {"EmMessage", "InvGetDayData", "InvIdentify", "InvLogin", "InvLogout"}

\* Counters to serialize, and the two words of a counter on the wire.
CounterWords ==
    {0, 1, 2, 255, 256, 32767, 32768, 32769, 33023, 49152, 65534, 65535}

CounterInputs ==
    {[variant |-> "Counter",
      counters |-> [packet_id |-> w, fragment_id |-> f,
                    first_fragment |-> first]] :
        w \in CounterWords, f \in {0, 1, 65535}, first \in BOOLEAN}

CounterFrames ==
    {[variant |-> "Counter", fragment_id |-> f, word |-> w] :
        w \in CounterWords, f \in {0, 258, 65535}}

\* Buffers with the cursor at position at and zeros and ones from there on.
FooterFrames ==
    {[variant |-> "Footer", at |-> at, rest |-> rest] :
        at \in {0, 3},
        rest \in UNION {[1..n -> {0, 1}] : n \in 0..MaxFooterLen}}

\* OBIS values with ids in and around the three families.
ObisInputs ==
    {[variant |-> "Obis", id |-> <<hi, lo>>, value |-> v] :
        hi \in {0, 1, 36864, 65535},
        lo \in {0, 1, 768, 1023, 1024, 1279, 1280, 2047, 2048, 2303, 2304,
                3072, 33792, 65535},
        v \in {<<0, 0, 0, 5>>, <<4660, 22136, 39612, 57072>>}}

\* Password strings as sequences of characters: ASCII ones and at most one
\* character beyond ASCII, at any position.
PasswordInputs ==
    {[variant |-> "Password",
      passwd |-> [i \in 1..n |-> IF i = at THEN c ELSE 47 + i]] :
        n \in 0..MaxPwLen, at \in 0..MaxPwLen, c \in {128, 233, 8364}}

\* Packet headers to serialize, and the seven fields of a header on the
\* wire, each as serialize writes it or not.
HeaderInputs ==
    {[variant |-> "Header", data_len |-> n, protocol |-> t] :
        n \in {0, 2, 28, 1008, 65533},
        t \in {SMA_PROTOCOL_INV, SMA_PROTOCOL_EM, 0}}

HeaderFrames ==
    {[variant |-> "Header", fourcc |-> fourcc, len |-> len, tag |-> tag,
      group |-> group, wire_len |-> n, version |-> version,
      protocol |-> t] :
        fourcc \in {Word(SMA_FOURCC), <<21325, 16641>>},
        len \in {4, 5}, tag \in {672, 673},
        group \in {<<0, 1>>, <<0, 2>>, <<1, 1>>},
        n \in {0, 1, 2, 3, 30, 65535}, version \in {16, 17},
        t \in {SMA_PROTOCOL_INV, SMA_PROTOCOL_EM, 0}}

\* Datagrams of a peer that does not keep to the protocol: the frame of a
\* message with its data length word, its inverter wordcount or one byte
\* replaced, or cut short.  -1 leaves the part as it is.
DatagramBases ==
    {EmMessage(<<>>), EmMessage(<<Obis32(1), Obis64(2)>>),
     GetDayDataMessage(InvCommon(Device, Dummy, 0,
                                 [packet_id |-> 1, fragment_id |-> 0,
                                  first_fragment |-> TRUE]), 0),
     GetDayDataMessage(InvCommon(Dummy, Device, 0,
                                 [packet_id |-> 7, fragment_id |-> 1,
                                  first_fragment |-> FALSE]), 2)}
    \cup {m \in IdentifyMessages \cup LogoutMessages :
            m.dst = Broadcast}
    \cup {LoginMessage(InvCommon(Device, Dummy, 0,
                                 [packet_id |-> 1, fragment_id |-> 0,
                                  first_fragment |-> TRUE]),
                       <<65535, 65534>>, pw) :
            pw \in {<<>>, <<PwFromStr(<<48, 48, 48, 48>>).val>>}}

Datagram(base, wire_len, wordcount, at, byte, cut) ==
    [variant |-> "Datagram", base |-> base, wire_len |-> wire_len,
     wordcount |-> wordcount, at |-> at, byte |-> byte, cut |-> cut]

BaseWire(m) == AnySmaMessageSerialize(m, BUFFER_SIZE, FALSE).bytes

\* The data length words tried in place of the one of the frame b.
WireLens(b) ==
    {0, 1, 2, 3, 4, 5, 6, 10, 11, 12, 13, 14, 18, 22, 26, 29, 30, 34, 38,
     65535}
    \cup {n \in {R16(b, 12, "BE") + 4 - k : k \in 0..16} : n >= 0}

\* The frame of m with another data length word, with the wordcount of the
\* frame and with the wordcount that agrees with the word.
LenEdits(m) ==
    UNION {{Datagram(m, n, -1, -1, 0, -1),
            Datagram(m, n, (((n + U16 - 2) % U16) \div 4) % 256, -1, 0, -1)} :
           n \in WireLens(BaseWire(m))}

DatagramFrames ==
    {Datagram(m, -1, -1, e[1], e[2], cut) :
        m \in DatagramBases,
        e \in {<<-1, 0>>, <<0, 84>>, <<3, 1>>, <<16, 0>>, <<17, 102>>,
               <<17, 105>>, <<17, 101>>, <<43, 0>>, <<43, 9>>, <<44, 0>>,
               <<45, 1>>},
        cut \in {-1, 0, 4, 17, 18, 31, 32, 45, 46, 53, 57}}
    \cup UNION {LenEdits(m) : m \in DatagramBases}

\* b with the data length word n, with the byte at the 0-based index at
\* replaced, and cut to its first cut bytes; a negative n, at or cut and an
\* index or cut past the end leave b as it is.
WithWireLen(b, n) ==
    IF n < 0 THEN b
    ELSE SubSeq(b, 1, 12) \o W16(n, "BE") \o SubSeq(b, 15, Len(b))

WithByte(b, at, byte) ==
    IF at < 0 \/ at >= Len(b) THEN b ELSE [b EXCEPT ![at + 1] = byte]

CutTo(b, cut) == IF cut < 0 \/ cut >= Len(b) THEN b ELSE SubSeq(b, 1, cut)

DatagramWire(d) ==
    CutTo(WithByte(WithByte(WithWireLen(BaseWire(d.base), d.wire_len),
                            IF d.wordcount < 0 THEN -1
                                               ELSE PACKET_HEADER_LENGTH,
                            d.wordcount),
                   d.at, d.byte),
          d.cut)

PartInputs ==
    CounterInputs \cup ObisInputs \cup PasswordInputs \cup HeaderInputs
PartFrames ==
    CounterFrames \cup FooterFrames \cup ObisInputs \cup HeaderFrames
    \cup DatagramFrames

\* One OBIS value as a peer writes it: the id, then four or eight bytes.
ObisWire(o) ==
    W32(o.id, "BE")
    \o (IF ObisIs64(o.id) THEN W64(o.value, "BE")
        ELSE W32(<<o.value[3], o.value[4]>>, "BE"))

\* An energy meter frame as a peer writes it, whatever its record count.
EmWire(m) ==
    LET body == Flat([i \in 1..Len(m.payload) |-> ObisWire(m.payload[i])])
    IN  HeaderSerialize(EM_LENGTH_MIN + Len(body) - PACKET_HEADER_LENGTH
                        - FOOTER_LENGTH, SMA_PROTOCOL_EM)
        \o EndpointSerialize(m.src) \o W32(m.timestamp_ms, "BE")
        \o body \o FooterSerialize

\* The frame a peer built without overflow checks sends for message m.
PeerWire(m) ==
    CASE m.variant = "EmMessage" -> EmWire(m)
      [] m.variant = "Counter" ->
            W16(m.fragment_id, "LE") \o W16(m.word, "LE")
      [] m.variant = "Footer" -> [i \in 1..m.at |-> 170] \o m.rest
      [] m.variant = "Obis" -> ObisWire(m)
      [] m.variant = "Datagram" -> DatagramWire(m)
      [] m.variant = "Header" ->
            W32(m.fourcc, "BE") \o W16(m.len, "BE") \o W16(m.tag, "BE")
            \o W32(m.group, "BE") \o W16(m.wire_len, "BE")
            \o W16(m.version, "BE") \o W16(m.protocol, "BE")
      [] OTHER -> AnySmaMessageSerialize(m, BUFFER_SIZE, FALSE).bytes

PeerMessages == EmMessages \cup LoginMessages

\* T::serialize for the type of m.
TypeSerialize(m, cap, checks) ==
    CASE m.variant = "Counter" -> Wrote("Ok", 0, CounterBytes(m.counters))
      [] m.variant = "Obis" ->
            ObisSerialize([id |-> m.id, value |-> m.value], cap)
      [] m.variant = "Header" ->
            Wrote("Ok", 0, HeaderSerialize(m.data_len, m.protocol))
      [] OTHER -> AnySmaMessageSerialize(m, cap, checks)

\* T::deserialize for the type of m, with the cursor where m puts it.
TypeDeserialize(m, b, checks, isStd) ==
    CASE m.variant = "EmMessage" -> EmDeserialize(b, checks, isStd)
      [] m.variant = "InvGetDayData" -> GetDayDataDeserialize(b, checks, isStd)
      [] m.variant = "InvIdentify" -> IdentifyDeserialize(b, checks)
      [] m.variant = "InvLogin" -> LoginDeserialize(b, checks)
      [] m.variant = "InvLogout" -> LogoutDeserialize(b, checks)
      [] m.variant = "Counter" -> Got(CounterFromBytes(b, 0), 4)
      [] m.variant = "Footer" -> FooterDeserialize(b, m.at)
      [] m.variant = "Obis" -> ObisDeserialize(b, 0)
      [] m.variant = "Header" -> HeaderDeserialize(b, checks)

\* The client variables of a program that only uses the codec.
NoClient ==
    /\ endpoint = Dummy
    /\ packet_id = 0
    /\ multicast = FALSE
    /\ pc = "idle"
    /\ op = "none"
    /\ records = <<>>
    /\ total_fragments = 0
    /\ rx_fragments = 0
    /\ rx_first = FALSE
    /\ result = Result("None", 0)
    /\ rxq = <<>>
    /\ sent = <<>>
    /\ seen = <<>>
    /\ calls = 0
    /\ arrived = 0

clientvars == <<endpoint, packet_id, multicast, overflow_checks, pc, op,
                records, total_fragments, rx_fragments, rx_first, result,
                rxq, sent, seen, calls, arrived>>

InitCodec ==
    /\ NoClient
    /\ overflow_checks \in BOOLEAN
    /\ std \in BOOLEAN
    /\ \/ /\ origin = "local"
          /\ input \in Messages \cup PartInputs
          /\ stage = "input"
          /\ buffer = <<>>
       \/ /\ origin = "peer"
          /\ input \in PeerMessages \cup PartFrames
          /\ stage = "frame"
          /\ buffer = PeerWire(input)
    /\ out = <<>>
    /\ pad = 0
    /\ hit = 0
    /\ remaining = BUFFER_SIZE

\* serialized_len() of a message, and the LENGTH_MIN / LENGTH of its type.
SerializedLen(m) ==
    CASE m.variant = "EmMessage" -> EM_LENGTH_MIN + SumLen(m.payload)
      [] m.variant = "InvGetDayData" ->
            InvLength(8) + Len(m.records) * METER_VALUE_LENGTH
      [] m.variant = "InvIdentify" ->
            InvLength(IF IsSome(m.identity) THEN IDENTIFY_PAYLOAD_MAX
                                            ELSE IDENTIFY_PAYLOAD_MIN)
      [] m.variant = "InvLogin" ->
            InvLength(IF IsSome(m.password) THEN LOGIN_PAYLOAD_MAX
                                            ELSE LOGIN_PAYLOAD_MIN)
      [] m.variant = "InvLogout" -> InvLength(4)

LengthMin(m) ==
    CASE m.variant = "EmMessage" -> EM_LENGTH_MIN
      [] m.variant = "InvGetDayData" -> InvLength(8)
      [] m.variant = "InvIdentify" -> InvLength(IDENTIFY_PAYLOAD_MIN)
      [] m.variant = "InvLogin" -> InvLength(LOGIN_PAYLOAD_MIN)
      [] m.variant = "InvLogout" -> InvLength(4)

\* The cursors a value is serialized into: the session's buffer and, for a
\* message, cursors with no room, with one byte less than LENGTH_MIN and
\* with one byte less than the message needs.
Capacities(m) ==
    IF m.variant \in MessageVariants
    THEN {BUFFER_SIZE, 0, LengthMin(m) - 1, SerializedLen(m) - 1}
    ELSE {BUFFER_SIZE}

\* m.serialize(&mut cursor) on a cursor with cap bytes remaining; the frame
\* written into the session's buffer goes on to the peer.
SerializeStep(cap) ==
    /\ stage = "input"
    /\ input.variant # "Password"
    /\ out' = TypeSerialize(input, cap, overflow_checks)
    /\ buffer' = out'.bytes
    /\ remaining' = cap
    /\ stage' = IF cap < BUFFER_SIZE THEN "short"
                ELSE IF out'.k = "Ok" THEN "frame" ELSE "failed"
    /\ UNCHANGED <<clientvars, std, input, origin, pad, hit>>

\* What SmaSession::write does with the result w of msg.serialize on its
\* zeroed buffer of BUFFER_SIZE bytes: the error is returned before send_to,
\* or the buffer up to the cursor's position is the one datagram sent.
SessionBuffer(w) == w.bytes \o Zeros(BUFFER_SIZE - Len(w.bytes))

WriteSendsWholeBuffer(w) ==
    IF w.k = "Ok" THEN <<SessionBuffer(w)>> ELSE <<>>

WriteSends(w) ==
    IF w.k = "Ok" THEN <<SubSeq(SessionBuffer(w), 1, Len(w.bytes))>> ELSE <<>>

\* session.write(msg) on a socket whose send_to succeeds.
SessionWrite ==
    /\ stage = "input"
    /\ input.variant \in MessageVariants
    /\ out' = AnySmaMessageSerialize(input, BUFFER_SIZE, overflow_checks)
    /\ buffer' = SessionBuffer(out')
    /\ sent' = WriteSends(out')
    /\ stage' = "written"
    /\ UNCHANGED <<endpoint, packet_id, multicast, overflow_checks, pc, op,
                   records, total_fragments, rx_fragments, rx_first, result,
                   rxq, seen, calls, arrived, std, input, origin, pad, hit,
                   remaining>>

\* SmaInvLogin::pw_from_str(passwd).
PwFromStrStep ==
    /\ stage = "input"
    /\ input.variant = "Password"
    /\ out' = PwFromStr(input.passwd)
    /\ stage' = "password"
    /\ UNCHANGED <<clientvars, std, input, buffer, origin, pad, hit,
                 remaining>>

\* The frame of a message is followed by 2k zero bytes.
Pad(k) ==
    /\ stage = "frame"
    /\ input.variant \in MessageVariants
    /\ pad = 0
    /\ hit = 0
    /\ buffer' = buffer \o Zeros(2 * k)
    /\ pad' = 2 * k
    /\ UNCHANGED <<clientvars, std, input, out, stage, origin, hit,
                 remaining>>

\* One byte of the footer or of the zero bytes after it becomes v.
Corrupt(i, v) ==
    /\ stage = "frame"
    /\ input.variant \in MessageVariants
    /\ hit = 0
    /\ i > Len(buffer) - pad - FOOTER_LENGTH
    /\ buffer' = [buffer EXCEPT ![i] = v]
    /\ hit' = i
    /\ UNCHANGED <<clientvars, std, input, out, stage, origin, pad,
                 remaining>>

\* T::deserialize(&mut cursor) on exactly the bytes of the frame.
DeserializeStep ==
    /\ stage = "frame"
    /\ input.variant # "Datagram"
    /\ out' = TypeDeserialize(input, buffer, overflow_checks, std)
    /\ stage' = "deserialized"
    /\ UNCHANGED <<clientvars, std, input, buffer, origin, pad, hit,
                 remaining>>

\* AnySmaMessage::deserialize(&mut cursor) on the same bytes.
DeserializeAnyStep ==
    /\ stage = "frame"
    /\ input.variant \in MessageVariants \cup {"Datagram"}
    /\ out' = AnySmaMessageDeserialize(buffer, overflow_checks, std)
    /\ stage' = "any"
    /\ UNCHANGED <<clientvars, std, input, buffer, origin, pad, hit,
                 remaining>>

NextCodec ==
    \/ \E cap \in Capacities(input) : SerializeStep(cap)
    \/ SessionWrite
    \/ PwFromStrStep
    \/ \E k \in 1..MaxPad : Pad(k)
    \/ \E i \in 1..Len(buffer), v \in {1, 255} : Corrupt(i, v)
    \/ DeserializeStep
    \/ DeserializeAnyStep

SpecCodec == InitCodec /\ [][NextCodec]_vars

\* ========================================================================
\* Properties
\* ========================================================================
\* What the properties say about the datagrams of a call is stated over
\* seen, the datagrams recv_from handed to the call, in arrival order.

Last(q) == q[Len(q)]

\* The datagram passes the session's source filter.
FromAcceptedSource(d) == multicast \/ d.ip = "remote"

\* The datagram is an inverter frame with this opcode and packet id.
IsInvFrame(d, opcode, pid) ==
    /\ FromAcceptedSource(d)
    /\ d.len >= 46
    /\ d.fourcc = 1397571840
    /\ d.protocol = 24677
    /\ d.opcode = opcode
    /\ d.raw_packet_id % 32768 = pid

IsSof(d) == d.raw_packet_id >= 32768

\* The fragments the current get_day_data call accepted, in arrival order.
Fragments == SelectSeq(seen, LAMBDA d : IsInvFrame(d, 131184, packet_id))

SofCount(q) == Cardinality({i \in 1..Len(q) : IsSof(q[i])})

RECURSIVE Concat(_)
Concat(q) == IF q = <<>> THEN <<>> ELSE Head(q).payload \o Concat(Tail(q))

\* C1: get_day_data returns Ok only when a first-fragment frame was accepted
\* and the number of accepted fragments equals total_fragments, and while
\* that is not so it is still receiving.
C1_OkExactlyWhenComplete ==
    op = "get_day_data" =>
        LET complete == SofCount(Fragments) > 0
                        /\ Len(Fragments) = total_fragments
        IN  /\ result.kind = "Ok" => complete
            /\ result = Pending => ~complete /\ pc = "get_day_data"

\* A call that returned Ok after three fragments, the first-fragment frame
\* in the middle.
C1_Witness ==
    /\ op = "get_day_data"
    /\ result.kind = "Ok"
    /\ Len(Fragments) = 3
    /\ IsSof(Fragments[2])

\* The decoder accepts the datagram (or the source filter drops it unread).
Decodable(d) ==
    FromAcceptedSource(d) =>
        /\ d.len >= 18
        /\ d.protocol = 24677 => d.len >= 46
        /\ d.protocol = 24681 => d.len >= 32
        /\ d.fourcc = 1397571840
        /\ d.protocol \in {24677, 24681}
        /\ d.protocol = 24677 => d.opcode \in {131184, 131072, 327167, 130559}

\* C2: when the call was handed one first-fragment frame with fragment_id N
\* and up to N further fragments, all with error_code 0, in any order, and
\* no datagram failed to decode and no I/O failed, then it has returned Ok
\* if the fragments are N + 1 and is still receiving if they are fewer.
C2_OkAfterAllFragments ==
    LET F == Fragments
        sofs == {i \in 1..Len(F) : IsSof(F[i])}
        N == F[CHOOSE i \in sofs : TRUE].fragment_id
    IN  ( /\ op = "get_day_data"
          /\ result.kind # "IoError"
          /\ \A i \in 1..Len(seen) : Decodable(seen[i])
          /\ \A i \in 1..Len(F) : F[i].error_code = 0
          /\ Cardinality(sofs) <= 1
          /\ sofs # {} => Len(F) <= N + 1 )
        => IF sofs # {} /\ Len(F) = N + 1
           THEN result.kind = "Ok"
           ELSE result = Pending

\* The same with the first-fragment frame's fragment_id below 0xFFFF.
C2_Below65535 ==
    (\A i \in 1..Len(Fragments) : Fragments[i].fragment_id < 65535)
        => C2_OkAfterAllFragments

\* C3: the records a successful get_day_data returns, and the records it
\* holds while receiving, are the record lists of the accepted fragments
\* concatenated in arrival order; other datagrams contribute nothing.
C3_RecordsInArrivalOrder ==
    op = "get_day_data" =>
        /\ result.kind = "Ok" => result.val = Concat(Fragments)
        /\ result = Pending => records = Concat(Fragments)

\* Ok after fragments that arrived with fragment ids 1, 0, 2.
C3_Witness ==
    /\ op = "get_day_data"
    /\ result.kind = "Ok"
    /\ Len(Fragments) = 3
    /\ Fragments[1].fragment_id = 1
    /\ Fragments[2].fragment_id = 0
    /\ Fragments[3].fragment_id = 2
    /\ result.val = <<3, 4, 2>>

\* The i-th accepted fragment is a first-fragment frame that follows another.
SecondSof(F, i) == IsSof(F[i]) /\ \E j \in 1..(i - 1) : IsSof(F[j])

\* C4: an accepted first-fragment frame that follows another one ends the
\* call with ExtraSofPacket carrying that frame's counters.
C4_ExtraSofPacket ==
    op = "get_day_data" =>
        \A i \in 1..Len(Fragments) :
            SecondSof(Fragments, i) =>
                /\ i = Len(Fragments)
                /\ result.kind = "ExtraSofPacket"
                /\ result.val =
                       [fragment_id |-> Fragments[i].fragment_id,
                        packet_id |-> Fragments[i].raw_packet_id - 32768,
                        first_fragment |-> TRUE]

\* A second first-fragment frame that also carries an error code.
C4_Witness ==
    /\ op = "get_day_data"
    /\ result.kind = "ExtraSofPacket"
    /\ Len(Fragments) >= 2
    /\ Last(Fragments).error_code # 0

\* C5 as claimed: every accepted fragment with a non-zero error_code ends
\* the call with DeviceError(error_code).
C5_AlwaysDeviceError ==
    op = "get_day_data" =>
        \A i \in 1..Len(Fragments) :
            Fragments[i].error_code # 0 =>
                /\ i = Len(Fragments)
                /\ result = Result("DeviceError", Fragments[i].error_code)

\* C5 amended: an accepted fragment with a non-zero error_code is the last
\* one of the call, and when the call returns it returns ExtraSofPacket if
\* the fragment is a second first-fragment frame and DeviceError(error_code)
\* otherwise; the fragment's records are not returned.
C5_DeviceErrorUnlessExtraSof ==
    op = "get_day_data" =>
        \A i \in 1..Len(Fragments) :
            Fragments[i].error_code # 0 =>
                /\ i = Len(Fragments)
                /\ result.kind \in {"ExtraSofPacket", "DeviceError", "Panic"}
                /\ result.kind = "ExtraSofPacket" <=> SecondSof(Fragments, i)
                /\ result.kind = "DeviceError" =>
                       result.val = Fragments[i].error_code
                /\ records = Concat(SubSeq(Fragments, 1, i - 1))

\* DeviceError from a fragment that is not the first one accepted.
C5_Witness ==
    /\ op = "get_day_data"
    /\ result.kind = "DeviceError"
    /\ Len(Fragments) >= 2
    /\ records # <<>>

\* A step in which a call starts: the client was idle and no datagram arrived.
CallStep == pc = "idle" /\ rxq' = rxq

\* C6: packet_id starts at 0 and stays in 0..=0x7FFF; a call that takes a
\* counter adds 1 to it, or resets it to 0 when the sum has bit 0x8000 set,
\* and its request carries {packet_id = the new value, fragment_id = 0,
\* first_fragment = true}, which differs from the previous request's; no
\* other step changes packet_id.
C6_PacketIdWraps ==
    /\ packet_id = 0
    /\ [](packet_id \in 0..32767)
    /\ [][IF CallStep
          THEN \/ result'.kind = "TimeError" /\ packet_id' = packet_id
               \/ /\ packet_id' = IF packet_id = 32767 THEN 0
                                   ELSE packet_id + 1
                  /\ sent' # <<>> =>
                        /\ Len(sent') = 1
                        /\ sent'[1].raw_packet_id = packet_id' + 32768
                        /\ sent'[1].fragment_id = 0
                        /\ sent # <<>> =>
                              sent'[1].raw_packet_id # sent[1].raw_packet_id
          ELSE packet_id' = packet_id]_vars

\* The request after packet_id 0x7FFF: it carries packet_id 0.
C6_Witness ==
    /\ packet_id = 0
    /\ sent # <<>>
    /\ sent[1].raw_packet_id = 32768

\* The datagrams of the current call that are frames of this opcode with the
\* call's packet id, by position in seen.
Matching(opcode) ==
    {i \in 1..Len(seen) : IsInvFrame(seen[i], opcode, packet_id)}

\* The one request of the current call: an inverter frame with this opcode,
\* from the client's endpoint to dst, with the call's counter.
SentRequest(opcode, dst) ==
    /\ Len(sent) = 1
    /\ sent[1].fourcc = 1397571840
    /\ sent[1].protocol = 24677
    /\ sent[1].opcode = opcode
    /\ sent[1].dst = dst
    /\ sent[1].src = endpoint
    /\ sent[1].raw_packet_id = packet_id + 32768
    /\ sent[1].fragment_id = 0

\* C7: identify sends one Identify request to the broadcast endpoint; the
\* first Identify message with the request's packet_id ends the call, with
\* its src endpoint if its error_code is 0 and DeviceError(error_code)
\* otherwise; decodable datagrams that are something else leave it pending.
C7_Identify ==
    op = "identify" =>
        /\ \/ SentRequest(131072, [susy_id |-> 65535,
                                   serial |-> <<65535, 65535>>])
           \/ sent = <<>> /\ seen = <<>> /\ result.kind = "IoError"
        /\ \A i \in Matching(131072) :
               /\ i = Len(seen)
               /\ result = IF seen[i].error_code = 0
                           THEN Result("Ok", seen[i].src)
                           ELSE Result("DeviceError", seen[i].error_code)
        /\ ( /\ Matching(131072) = {}
             /\ \A i \in 1..Len(seen) : Decodable(seen[i]) )
           => result.kind \in {"Pending", "IoError"}

\* identify returned an endpoint after skipping a decodable datagram.
C7_Witness ==
    /\ op = "identify"
    /\ result.kind = "Ok"
    /\ Len(seen) = 2
    /\ FromAcceptedSource(seen[1])
    /\ Decodable(seen[1])

\* C8: login sends one Login request with a password to the target; the
\* first Login message with the request's packet_id ends the call, with Ok
\* if its error_code is 0 and LoginFailed otherwise; Ok is returned in no
\* other case and DeviceError never.
C8_Login ==
    op = "login" =>
        /\ \/ SentRequest(327167, Device) /\ Len(sent[1].payload) = 12
           \/ /\ sent = <<>>
              /\ seen = <<>>
              /\ result.kind \in {"IoError", "TimeError", "InvalidPassword"}
        /\ \A i \in Matching(327167) :
               /\ i = Len(seen)
               /\ result = IF seen[i].error_code = 0
                           THEN Result("Ok", 0)
                           ELSE Result("LoginFailed", 0)
        /\ result.kind = "Ok" => Matching(327167) # {}
        /\ result.kind = "LoginFailed" => Matching(327167) # {}
        /\ result.kind # "DeviceError"

\* LoginFailed after a Login message with another packet_id was passed over.
C8_Witness ==
    /\ op = "login"
    /\ result.kind = "LoginFailed"
    /\ Len(seen) = 2
    /\ FromAcceptedSource(seen[1])
    /\ seen[1].opcode = 327167
    /\ seen[1].fourcc = 1397571840

\* C9: logout sends one Logout message to the target and returns what the
\* send returned without receiving: the step leaves the socket's queue as it
\* is, the call never awaits, and datagrams arriving afterwards queue up.
C9_LogoutSendsOnly ==
    /\ [](op = "logout" =>
             /\ pc = "idle"
             /\ seen = <<>>
             /\ \/ SentRequest(130559, Device) /\ result = Result("Ok", 0)
                \/ sent = <<>> /\ result.kind = "IoError")
    /\ [][op' = "logout" => Len(rxq') >= Len(rxq)]_vars

\* A datagram is queued after a logout that returned Ok.
C9_Witness ==
    /\ op = "logout"
    /\ result.kind = "Ok"
    /\ rxq # <<>>

ExpectedOpcode ==
    CASE op = "identify" -> 131072
      [] op = "login" -> 327167
      [] op = "get_day_data" -> 131184
      [] OTHER -> 0

\* C10: when recv_from hands the pending read a datagram from another IP, a
\* unicast session goes on as if nothing had arrived, whatever the bytes;
\* a multicast session decodes it: a bad fourCC ends the read with
\* InvalidFourCC and a matching message ends the wait.
C10_SourceFilter ==
    [][Len(seen') = Len(seen) + 1 =>
          LET d == Head(rxq)
          IN  /\ (~multicast /\ d.ip # "remote") =>
                    /\ pc' = pc
                    /\ result' = result
                    /\ locals' = locals
              /\ (multicast /\ d.ip # "remote") =>
                    /\ d.fourcc # 1397571840 =>
                          result' = Result("ProtocolError", "InvalidFourCC")
                    /\ IsInvFrame(d, ExpectedOpcode, packet_id) =>
                          result' # Pending]_vars

\* A unicast read still pending after a malformed datagram from another IP.
C10_Witness ==
    /\ ~multicast
    /\ result = Pending
    /\ seen # <<>>
    /\ Last(seen).ip = "other"
    /\ Last(seen).fourcc # 1397571840

\* The error the decoder has for the datagram, "" when it has none.
ErrorKind(d) ==
    IF d.len < 18 THEN "BufferTooSmall"
    ELSE IF d.fourcc # 1397571840 THEN "InvalidFourCC"
    ELSE IF d.protocol = 24681
    THEN IF d.len < 32 THEN "BufferTooSmall" ELSE ""
    ELSE IF d.protocol # 24677 THEN "UnsupportedProtocol"
    ELSE IF d.len < 46 THEN "BufferTooSmall"
    ELSE IF d.opcode \notin {131184, 131072, 327167, 130559}
    THEN "UnsupportedOpcode"
    ELSE ""

\* C11: when recv_from hands the pending read a datagram that passes the
\* source filter and fails to decode, a multicast session skips it if the
\* error is UnsupportedProtocol and goes on receiving; in every other case
\* (any other error in either mode, UnsupportedProtocol in a unicast session)
\* the call ends at once with that error, whatever the call is waiting for.
C11_DecodeErrors ==
    [][Len(seen') = Len(seen) + 1 =>
          LET d == Head(rxq)
              e == ErrorKind(d)
          IN  (FromAcceptedSource(d) /\ e # "") =>
                  IF multicast /\ e = "UnsupportedProtocol"
                  THEN /\ pc' = pc
                       /\ result' = Pending
                       /\ locals' = locals
                  ELSE /\ pc' = "idle"
                       /\ result' = Result("ProtocolError", e)]_vars

\* A multicast login that skipped an unknown protocol and then ended with
\* UnsupportedOpcode.
C11_Witness ==
    /\ multicast
    /\ op = "login"
    /\ Len(seen) = 2
    /\ ErrorKind(seen[1]) = "UnsupportedProtocol"
    /\ result = Result("ProtocolError", "UnsupportedOpcode")

\* C12: read hands its caller a message only for a datagram that passed the
\* source filter, decoded and matched the predicate; a decoded datagram the
\* predicate rejects leaves the read receiving; and a pending read ends only
\* on a matching datagram, on a decode error or on an I/O error.
C12_ReadLoop ==
    [][/\ Len(seen') = Len(seen) + 1 =>
             LET d == Head(rxq)
                 match == IsInvFrame(d, ExpectedOpcode, packet_id)
             IN  /\ result'.kind \in {"Ok", "DeviceError", "LoginFailed",
                                      "ExtraSofPacket"} => match
                 /\ rx_fragments' # rx_fragments => match
                 /\ (FromAcceptedSource(d) /\ ErrorKind(d) = "" /\ ~match) =>
                        /\ pc' = pc
                        /\ result' = Pending
                        /\ locals' = locals
       /\ (pc \notin {"idle", "aborted"} /\ pc' # pc) =>
             \/ /\ Len(seen') = Len(seen) + 1
                /\ \/ IsInvFrame(Head(rxq), ExpectedOpcode, packet_id)
                   \/ /\ FromAcceptedSource(Head(rxq))
                      /\ ErrorKind(Head(rxq)) # ""
                      /\ result'.kind = "ProtocolError"
             \/ seen' = seen /\ result'.kind = "IoError"]_vars

\* A login that returned Ok after read passed over an Identify message with
\* the same packet id.
C12_Witness ==
    /\ op = "login"
    /\ result.kind = "Ok"
    /\ Len(seen) = 2
    /\ FromAcceptedSource(seen[1])
    /\ ErrorKind(seen[1]) = ""
    /\ seen[1].opcode = 131072
    /\ seen[1].raw_packet_id = seen[2].raw_packet_id

\* ------------------------------------------------------------------------
\* Codec properties
\* ------------------------------------------------------------------------
\* The frame serialize wrote for a message was deserialized.
RoundTripped ==
    /\ stage \in {"deserialized", "any"}
    /\ origin = "local"
    /\ input.variant \in {"EmMessage", "InvGetDayData", "InvIdentify",
                          "InvLogin", "InvLogout"}

\* counters.packet_id < 0x8000, for the messages that have counters.
PacketIdFits(m) == m.variant = "EmMessage" \/ m.counters.packet_id < 32768

\* Every OBIS value whose id selects the 32-bit form is below 2^32.
ValuesFit(m) ==
    m.variant = "EmMessage" =>
        \A i \in 1..Len(m.payload) :
            (m.payload[i].id = <<36864, 0>>
             \/ m.payload[i].id[2] \div 256 = 4)
                => m.payload[i].value[1] = 0 /\ m.payload[i].value[2] = 0

\* C13 as stated: every message that serialize accepts, with a packet id
\* below 0x8000, is what deserialize and AnySmaMessage::deserialize return
\* for the bytes serialize wrote.
C13_RoundTrip ==
    (RoundTripped /\ pad = 0 /\ hit = 0 /\ PacketIdFits(input))
        => out = [k |-> "Ok", v |-> input, p |-> Len(buffer)]

\* C13 amended: the same for the messages whose OBIS values with a 32-bit
\* id are below 2^32; serialize writes only the low 32 bits of the others.
C13_RoundTripOfFittingValues ==
    (RoundTripped /\ pad = 0 /\ hit = 0 /\ PacketIdFits(input)
     /\ ValuesFit(input))
        => out = [k |-> "Ok", v |-> input, p |-> Len(buffer)]

\* An energy meter message with a full payload came back from
\* AnySmaMessage::deserialize.
C13_Witness ==
    /\ RoundTripped /\ stage = "any" /\ pad = 0 /\ hit = 0
    /\ input.variant = "EmMessage"
    /\ Len(input.payload) = 80
    /\ out.k = "Ok"
    /\ out.v = input

\* C14: a counter with packet_id < 0x8000 comes back unchanged from
\* serialize followed by deserialize; a wire word with bit 0x8000 decodes to
\* first_fragment = true and the low 15 bits, a word without it to
\* first_fragment = false and the word; a decoded packet_id is below
\* 0x8000.
C14_CounterRoundTrip ==
    (stage = "deserialized" /\ input.variant = "Counter")
        => /\ out.k = "Ok"
           /\ out.v.packet_id < 32768
           /\ (origin = "local" /\ input.counters.packet_id < 32768)
                  => out.v = input.counters
           /\ origin = "peer"
                  => /\ out.v.fragment_id = input.fragment_id
                     /\ input.word >= 32768
                            => /\ out.v.first_fragment
                               /\ out.v.packet_id = input.word - 32768
                     /\ input.word < 32768
                            => /\ ~out.v.first_fragment
                               /\ out.v.packet_id = input.word

\* The counter (1, 32767, first) was written as 01 00 FF FF and came back
\* from those bytes.
C14_Witness ==
    /\ stage = "deserialized"
    /\ input.variant = "Counter"
    /\ origin = "local"
    /\ input.counters = [packet_id |-> 32767, fragment_id |-> 1,
                         first_fragment |-> TRUE]
    /\ buffer = <<1, 0, 255, 255>>
    /\ out.v = input.counters

\* C15: SmaPacketFooter::deserialize succeeds exactly when the remaining
\* bytes are all zero and their count is even and at least 2, and then the
\* cursor is at the end of the buffer; fewer than 2 bytes give
\* BufferTooSmall, a non-zero 32-bit word or final 16-bit half-word gives
\* InvalidPadding, zero words followed by 1 or 3 bytes give
\* BufferNotConsumed.
C15_Footer ==
    (stage = "deserialized" /\ input.variant = "Footer")
        => LET t == input.rest
               n == Len(t)
               wordsZero == \A i \in 1..(4 * (n \div 4)) : t[i] = 0
           IN  /\ out.k = "Ok"
                      <=> (n >= 2 /\ n % 2 = 0 /\ \A i \in 1..n : t[i] = 0)
               /\ out.k = "Ok" => out.p = Len(buffer)
               /\ n < 2 => out.k = "BufferTooSmall"
               /\ (n >= 2 /\ ~wordsZero) => out.k = "InvalidPadding"
               /\ (n >= 2 /\ wordsZero /\ n % 4 = 2
                   /\ (t[n - 1] # 0 \/ t[n] # 0))
                      => out.k = "InvalidPadding"
               /\ (n >= 2 /\ wordsZero /\ n % 4 \in {1, 3})
                      => out.k = "BufferNotConsumed"

\* Six zero bytes after position 3 were accepted as a footer.
C15_Witness ==
    /\ stage = "deserialized"
    /\ input.variant = "Footer"
    /\ input.at = 3
    /\ input.rest = <<0, 0, 0, 0, 0, 0>>
    /\ out.k = "Ok"
    /\ out.p = 9

\* A valid message: a packet id below 0x8000, at most 80 OBIS values, each
\* with a supported id and a value of its width, at most 81 records, an
\* ASCII password.
Valid(m) ==
    /\ m.variant \in {"EmMessage", "InvGetDayData", "InvIdentify",
                      "InvLogin", "InvLogout"}
    /\ PacketIdFits(m)
    /\ ValuesFit(m)
    /\ m.variant = "EmMessage"
          => /\ Len(m.payload) <= 80
             /\ \A i \in 1..Len(m.payload) :
                   \/ m.payload[i].id = <<36864, 0>>
                   \/ m.payload[i].id[2] \div 256 \in {4, 8}
    /\ m.variant = "InvGetDayData" => Len(m.records) <= 81
    /\ (m.variant = "InvLogin" /\ m.password # <<>>)
          => \A i \in 1..12 : m.password[1][i] <= 127

\* The password bytes of m for which c + 0x88 leaves u8.
Above0x77(m) ==
    /\ m.variant = "InvLogin"
    /\ m.password # <<>>
    /\ \E i \in 1..12 : m.password[1][i] >= 120

\* C16: every valid message is serialized, and its frame, as this build or
\* a peer writes it, followed by 2k zero bytes deserializes to the message
\* with the whole buffer consumed; with a footer or padding byte changed to
\* a non-zero value deserialize fails with InvalidPadding or
\* BufferNotConsumed.
C16_PaddingTolerated ==
    Valid(input)
        => /\ stage # "failed"
           /\ (stage \in {"deserialized", "any"} /\ hit = 0)
                  => out = [k |-> "Ok", v |-> input, p |-> Len(buffer)]
           /\ (stage \in {"deserialized", "any"} /\ hit # 0)
                  => out.k \in {"InvalidPadding", "BufferNotConsumed"}

\* The same for the builds and passwords in which c + 0x88 and w - 0x88
\* stay within u8.
C16_WithoutOverflow ==
    (Valid(input) /\ ~(overflow_checks /\ Above0x77(input)))
        => /\ stage # "failed"
           /\ (stage \in {"deserialized", "any"} /\ hit = 0)
                  => out = [k |-> "Ok", v |-> input, p |-> Len(buffer)]
           /\ (stage \in {"deserialized", "any"} /\ hit # 0)
                  => out.k \in {"InvalidPadding", "BufferNotConsumed"}

\* The two forms of a supported OBIS id.
Narrow(id) == id = <<36864, 0>> \/ id[2] \div 256 = 4
Wide(id) == id[2] \div 256 = 8

\* C17: ObisValue serialize and deserialize accept an id exactly when it is
\* 0x90000000 or has 0x04 in bits 8..15 (8 bytes on the wire) or 0x08 there
\* (12 bytes); every other id gives UnsupportedObisId{id} on write and on
\* read, an energy meter message holding one is not serialized and a frame
\* holding one is not decoded.
C17_ObisIds ==
    /\ (input.variant = "Obis" /\ origin = "local"
        /\ stage \in {"frame", "failed"})
          => /\ out.k = "Ok" <=> (Narrow(input.id) \/ Wide(input.id))
             /\ Narrow(input.id) => Len(buffer) = 8
             /\ Wide(input.id) => Len(buffer) = 12
             /\ out.k # "Ok"
                   => /\ out.k = "UnsupportedObisId"
                      /\ out.v = input.id
                      /\ buffer = <<>>
    /\ (input.variant = "Obis" /\ stage = "deserialized")
          => /\ out.k = "Ok" <=> (Narrow(input.id) \/ Wide(input.id))
             /\ out.k = "Ok"
                   => /\ out.v.id = input.id
                      /\ out.p = IF Wide(input.id) THEN 12 ELSE 8
                      /\ out.p = Len(buffer)
             /\ out.k # "Ok"
                   => out.k = "UnsupportedObisId" /\ out.v = input.id
    /\ (input.variant = "EmMessage" /\ Len(input.payload) <= 80
        /\ \E i \in 1..Len(input.payload) :
               ~(Narrow(input.payload[i].id) \/ Wide(input.payload[i].id)))
          => /\ (origin = "local" /\ stage \notin {"input", "short"})
                   => /\ stage \in {"failed", "written"}
                      /\ out.k = "UnsupportedObisId"
             /\ (origin = "local" /\ stage = "short") => out.k # "Ok"
             /\ stage \in {"deserialized", "any"}
                   => out.k = "UnsupportedObisId"

\* The id 0x90000001 was read from the wire and refused.
C17_Witness ==
    /\ input.variant = "Obis"
    /\ origin = "peer"
    /\ stage = "deserialized"
    /\ input.id = <<36864, 1>>
    /\ out = [k |-> "UnsupportedObisId", v |-> <<36864, 1>>]

\* Every OBIS value of the energy meter message m has a supported id.
AllSupported(m) ==
    \A i \in 1..Len(m.payload) :
        Narrow(m.payload[i].id) \/ Wide(m.payload[i].id)

\* C18: an energy meter message with more than 80 OBIS values is refused by
\* serialize with PayloadTooLarge{len} and nothing is written; a frame with
\* up to 80 records is decoded, a frame with 81 or more gives
\* PayloadTooLarge; a decoded energy meter message has at most 80 entries.
C18_EmCap ==
    /\ (input.variant = "EmMessage" /\ origin = "local" /\ stage # "input"
        /\ Len(input.payload) > 80)
          => /\ stage = "failed"
             /\ out = [k |-> "PayloadTooLarge", v |-> Len(input.payload),
                       bytes |-> <<>>]
    /\ (input.variant = "EmMessage" /\ origin = "peer"
        /\ AllSupported(input) /\ stage \in {"deserialized", "any"}
        /\ hit = 0)
          => /\ Len(input.payload) <= 80
                   => out.k = "Ok" /\ Len(out.v.payload) = Len(input.payload)
             /\ Len(input.payload) >= 81 => out.k = "PayloadTooLarge"
    /\ (stage \in {"deserialized", "any"} /\ out.k = "Ok"
        /\ input.variant = "EmMessage")
          => Len(out.v.payload) <= 80

\* The same with the heapless container only.
C18_EmCapHeapless == ~std => C18_EmCap

\* C19: SmaInvLogin::serialize writes each password byte c as
\* (c + 0x88) mod 256, for every byte value, and deserialize recovers each
\* password byte as (w - 0x88) mod 256 from the wire byte w, for every byte
\* value; the zero bytes that pad a short password are 0x88 on the wire.
C19_PasswordBytes ==
    (input.variant = "InvLogin" /\ input.password # <<>>)
        => /\ (origin = "local" /\ stage \in {"frame", "failed"})
                 => /\ stage = "frame"
                    /\ out.k = "Ok"
                    /\ \A i \in 1..12 :
                          buffer[62 + i] = (input.password[1][i] + 136) % 256
           /\ (stage \in {"deserialized", "any"} /\ hit = 0)
                 => /\ out.k = "Ok"
                    /\ out.v.password # <<>>
                    /\ \A i \in 1..12 :
                          out.v.password[1][i]
                              = (buffer[62 + i] + 256 - 136) % 256

\* The same in a build in which u8 arithmetic wraps.
C19_WhenWrapping == ~overflow_checks => C19_PasswordBytes

\* C20: pw_from_str fails for every password string with a character
\* beyond ASCII at any position and accepts a string only if all of its
\* characters are ASCII.
C20_AsciiOnly ==
    (input.variant = "Password" /\ stage = "password")
        => (out.ok <=> \A i \in 1..Len(input.passwd) : input.passwd[i] <= 127)

\* The same for the first twelve characters, the ones pw_from_str reads.
C20_FirstTwelve ==
    (input.variant = "Password" /\ stage = "password")
        => (out.ok <=> \A i \in 1..Len(input.passwd) :
                          i <= 12 => input.passwd[i] <= 127)

\* What C21 says SmaPacketHeader::deserialize returns for the header
\* fields f on the wire.
HeaderVerdict(f) ==
    IF f.fourcc # <<21325, 16640>>
    THEN [k |-> "InvalidFourCC", v |-> f.fourcc]
    ELSE IF f.len # 4 THEN [k |-> "InvalidStartTagLen", v |-> f.len]
    ELSE IF f.tag # 672 THEN [k |-> "InvalidStartTag", v |-> f.tag]
    ELSE IF f.group # <<0, 1>> THEN [k |-> "InvalidGroup", v |-> f.group]
    ELSE IF f.version # 16
    THEN [k |-> "UnsupportedVersion", v |-> f.version]
    ELSE [k |-> "Ok",
          v |-> [data_len |-> f.wire_len - 2, protocol |-> f.protocol],
          p |-> 18]

\* C21: SmaPacketHeader::deserialize reports the first of fourCC, start tag
\* length, start tag, group and version that does not match, in wire order,
\* and returns the wire data length minus 2 and the protocol tag when all
\* match; a header written by serialize comes back with its data_len and
\* protocol.
C21_HeaderChecks ==
    (input.variant = "Header" /\ stage = "deserialized")
        => /\ origin = "peer" => out = HeaderVerdict(input)
           /\ origin = "local"
                 => out = [k |-> "Ok",
                           v |-> [data_len |-> input.data_len,
                                  protocol |-> input.protocol],
                           p |-> 18]

\* The same for the headers whose data length word is at least 2.
C21_FromTwo ==
    (input.variant = "Header" /\ origin = "peer" /\ input.wire_len < 2)
    \/ C21_HeaderChecks

\* AnySmaMessage::deserialize has been applied to the bytes in buffer.
AnyDecoded ==
    /\ input.variant \in MessageVariants \cup {"Datagram"}
    /\ stage = "any"

\* The protocol tag at offset 16 and the opcode at offset 43 of buffer.
TagAt16 == buffer[17] * 256 + buffer[18]
OpcodeAt43 == buffer[44] * 65536 + buffer[45] * 256 + buffer[46]

\* The result is the one of this decoder and, when a message, of the type.
DispatchedTo(decoded, variant) ==
    out = decoded /\ (out.k = "Ok" => out.v.variant = variant)

\* C22: AnySmaMessage::deserialize gives BufferTooSmall below 18 bytes, then
\* InvalidFourCC for a first word other than 0x534D4100, then hands 0x6069
\* to the energy meter decoder and 0x6065, from 46 bytes on, to the decoder
\* of the opcode at offset 43, with UnsupportedOpcode and
\* UnsupportedProtocol for the values it does not know; the variant
\* returned is the one of the tag and opcode.
C22_Dispatch ==
    AnyDecoded =>
        IF Len(buffer) < 18 THEN out = [k |-> "BufferTooSmall", v |-> Len(buffer)]
        ELSE IF SubSeq(buffer, 1, 4) # <<83, 77, 65, 0>>
        THEN out = [k |-> "InvalidFourCC",
                    v |-> <<buffer[1] * 256 + buffer[2],
                            buffer[3] * 256 + buffer[4]>>]
        ELSE IF TagAt16 = 24681
        THEN DispatchedTo(EmDeserialize(buffer, overflow_checks, std),
                          "EmMessage")
        ELSE IF TagAt16 # 24677
        THEN out = [k |-> "UnsupportedProtocol", v |-> TagAt16]
        ELSE IF Len(buffer) < 46
        THEN out = [k |-> "BufferTooSmall", v |-> Len(buffer)]
        ELSE IF OpcodeAt43 = 131072
        THEN DispatchedTo(IdentifyDeserialize(buffer, overflow_checks),
                          "InvIdentify")
        ELSE IF OpcodeAt43 = 327167
        THEN DispatchedTo(LoginDeserialize(buffer, overflow_checks),
                          "InvLogin")
        ELSE IF OpcodeAt43 = 130559
        THEN DispatchedTo(LogoutDeserialize(buffer, overflow_checks),
                          "InvLogout")
        ELSE IF OpcodeAt43 = 131184
        THEN DispatchedTo(GetDayDataDeserialize(buffer, overflow_checks,
                                                std), "InvGetDayData")
        ELSE out = [k |-> "UnsupportedOpcode", v |-> OpcodeAt43]

C22_Witness ==
    /\ input.variant = "Datagram"
    /\ stage = "any"
    /\ input.base.variant = "InvLogout"
    /\ input.at = 43
    /\ input.byte = 9
    /\ input.cut = 46
    /\ out = [k |-> "UnsupportedOpcode", v |-> 654847]

\* The number of bytes of the frame of a valid message.
FrameLen(m) == Len(AnySmaMessageSerialize(m, 1030, FALSE).bytes)

\* C23: serialize of a valid message into a cursor with fewer bytes
\* remaining than the message takes fails with BufferTooSmall, with no byte
\* written and the cursor where it was.
C23_ShortBuffer ==
    (stage = "short" /\ Valid(input) /\ remaining < FrameLen(input))
        => /\ out.k = "BufferTooSmall"
           /\ out.bytes = <<>>
           /\ buffer = <<>>

C23_Witness ==
    /\ stage = "short"
    /\ Valid(input)
    /\ input.variant = "InvGetDayData"
    /\ Len(input.records) = 81
    /\ remaining = 1029
    /\ out.k = "BufferTooSmall"
    /\ buffer = <<>>

\* The first-fragment frames among the accepted fragments.
Sofs == {i \in 1..Len(Fragments) : IsSof(Fragments[i])}

FirstSof == Fragments[CHOOSE i \in Sofs : \A j \in Sofs : i <= j]

\* C24: once get_day_data has accepted a first-fragment frame,
\* total_fragments is that frame's fragment_id plus one, for every
\* fragment_id up to 0xFFFF, and the call has not aborted.
C24_TotalFragments ==
    (op = "get_day_data" /\ Sofs # {})
        => /\ result.kind # "Panic"
           /\ rx_first
           /\ total_fragments = FirstSof.fragment_id + 1

\* The same for a first-fragment frame with fragment_id below 0xFFFF.
C24_Below65535 ==
    (op = "get_day_data" /\ Sofs # {} /\ FirstSof.fragment_id = 65535)
    \/ C24_TotalFragments

\* The bytes in buffer went to the energy meter or the GetDayData decoder
\* and pass the checks of the packet header, with a data length word that
\* leaves a data_len.
RecordFrame ==
    /\ AnyDecoded
    /\ Len(buffer) >= 18
    /\ HeaderDeserialize(buffer, FALSE).k = "Ok"
    /\ buffer[13] * 256 + buffer[14] >= 2
    /\ \/ TagAt16 = 24681
       \/ TagAt16 = 24677 /\ Len(buffer) >= 46 /\ OpcodeAt43 = 131184

\* C25: in the energy meter and GetDayData decoders remaining - padding_len
\* is never negative at a loop test, whatever data_len the header declares:
\* the decoder does not abort where the subtraction is checked, and the run
\* with the subtraction checked finds no loop test below zero.
C25_LoopStaysInData ==
    RecordFrame
        => /\ out.k # "Panic"
           /\ AnySmaMessageDeserialize(buffer, TRUE, std).k # "Panic"

\* The same for the frames as serialize writes them, padded or with a
\* damaged footer.
C25_OfWrittenFrames ==
    (RecordFrame /\ input.variant \in MessageVariants) => C25_LoopStaysInData

\* SmaPacketFooter::deserialize accepted the bytes input.rest.
FooterAccepted ==
    stage = "deserialized" /\ input.variant = "Footer" /\ out.k = "Ok"

\* The bytes t are k 32-bit zero words, then a 16-bit zero half-word or
\* nothing.
WordsThenHalf(t, k) ==
    /\ Len(t) \in {4 * k, 4 * k + 2}
    /\ \A i \in 1..Len(t) : t[i] = 0

\* C26: every footer the decoder accepts is one or more 32-bit zero words,
\* then at most one 16-bit zero half-word; the half-word alone is not
\* accepted.
C26_FooterHasWord ==
    FooterAccepted => \E k \in 1..MaxFooterLen : WordsThenHalf(input.rest, k)

\* C26 as the code has it: every footer the decoder accepts is zero or
\* more 32-bit zero words, then at most one 16-bit zero half-word, at least
\* 2 bytes in all, and the 16-bit zero half-word alone is accepted.
C26_FooterShape ==
    /\ FooterAccepted
          => /\ Len(input.rest) >= 2
             /\ \E k \in 0..MaxFooterLen : WordsThenHalf(input.rest, k)
    /\ (stage = "deserialized" /\ input.variant = "Footer"
        /\ input.rest = <<0, 0>>)
          => out = [k |-> "Ok", v |-> <<>>, p |-> input.at + 2]

\* The two zero bytes after position 3 were accepted as a footer.
C26_Witness ==
    /\ FooterAccepted
    /\ input.at = 3
    /\ input.rest = <<0, 0>>
    /\ out.p = 5

\* C27: AnySmaMessage::deserialize returns Ok or an error for every byte
\* sequence and never aborts on a read past the end or on an unsigned
\* subtraction below zero.
C27_NeverAborts == AnyDecoded => out.k # "Panic"

\* The same in a build that does not check integer overflow, for the
\* energy meter and Logout frames.
C27_WrappingBuild ==
    (AnyDecoded /\ ~overflow_checks /\ Len(buffer) >= 18
     /\ (TagAt16 = 24681 \/ (Len(buffer) >= 46 /\ OpcodeAt43 = 130559)))
        => out.k # "Panic"

CallMade == calls' = calls + 1

\* One next_packet step from p.
Advanced(p) == IF p + 1 >= 32768 THEN 0 ELSE p + 1

\* What C29 says of every step but the packet_id of a call of the four
\* counting operations: the endpoint stays, read_em_message and
\* write_em_message and every step that is not the start of a call leave
\* packet_id alone, and get_day_data starts with nothing received.
FrameOfStep ==
    /\ endpoint' = endpoint
    /\ ~CallMade => packet_id' = packet_id
    /\ (CallMade /\ op' \in {"read_em_message", "write_em_message"})
          => packet_id' = packet_id
    /\ (CallMade /\ op' = "get_day_data")
          => /\ records' = <<>>
             /\ total_fragments' = 0
             /\ rx_fragments' = 0
             /\ rx_first' = FALSE

Counting == {"identify", "login", "logout", "get_day_data"}

\* C29: packet_id is the only client state an operation changes: every call
\* of identify, login, logout and get_day_data advances it by one
\* next_packet step, also when the call fails, read_em_message and
\* write_em_message and the receiving steps leave it alone, the endpoint
\* never changes and get_day_data starts with no reassembly state.
C29_OneStepPerCall ==
    [][/\ FrameOfStep
       /\ (CallMade /\ op' \in Counting)
             => packet_id' = Advanced(packet_id)]_vars

\* C29 as the code has it: the same, but a login that fails with TimeError,
\* before the counter is taken, leaves packet_id as it was.
C29_OneStepOnceClockRead ==
    [][/\ FrameOfStep
       /\ (CallMade /\ op' \in Counting)
             => packet_id' = IF op' = "login" /\ result'.kind = "TimeError"
                             THEN packet_id
                             ELSE Advanced(packet_id)]_vars

\* The second call, a login refused with InvalidPassword, has advanced
\* packet_id to 2.
C29_Witness ==
    /\ op = "login"
    /\ result.kind = "InvalidPassword"
    /\ calls = 2
    /\ packet_id = 2
    /\ sent = <<>>

\* The most bytes a message of the variant may take.
MostBytes(variant) ==
    CASE variant = "EmMessage" -> 32 + 80 * 12
      [] variant = "InvGetDayData" -> 58 + 81 * 12
      [] variant = "InvIdentify" -> 98
      [] variant = "InvLogin" -> 78
      [] variant = "InvLogout" -> 54

\* The message has just been serialized into a cursor over a buffer of the
\* session's size.
JustSerialized ==
    /\ origin = "local"
    /\ input.variant \in MessageVariants
    /\ \/ stage = "written"
       \/ stage \in {"frame", "failed"} /\ pad = 0 /\ hit = 0

\* C30: a message that serialize accepts takes at most 1030 bytes (at most
\* 992, 1030, 98 and 78 for an energy meter, GetDayData, Identify and Login
\* message and 54 for Logout), serialize into the session's buffer never
\* fails with BufferTooSmall, and write sends the bytes of the buffer before
\* the cursor's position as one datagram, and nothing when serialize fails.
C30_FitsAndSendsWritten ==
    /\ JustSerialized
          => /\ out.k # "BufferTooSmall"
             /\ out.k = "Ok"
                   => /\ Len(out.bytes) <= MostBytes(input.variant)
                      /\ Len(out.bytes) <= 1030
                      /\ input.variant = "InvLogout" => Len(out.bytes) = 54
    /\ stage = "written"
          => /\ Len(buffer) = 1030
             /\ IF out.k = "Ok"
                THEN /\ Len(sent) = 1
                     /\ Len(sent[1]) = Len(out.bytes)
                     /\ \A i \in 1..Len(out.bytes) : sent[1][i] = buffer[i]
                     /\ sent[1] = out.bytes
                ELSE sent = <<>>

\* A GetDayData message of 81 records fills the buffer and is sent whole.
C30_Witness ==
    /\ stage = "written"
    /\ input.variant = "InvGetDayData"
    /\ Len(input.records) = 81
    /\ out.k = "Ok"
    /\ Len(sent) = 1
    /\ Len(sent[1]) = 1030

====
